---------------------------- MODULE Spec2Model ----------------------------
(***************************************************************************)
(* The workflow engine of QuickBot-Go (src/internal/workflow/workflow.go) *)
(* as a state machine: the registries of the engine, the heap of workflow *)
(* definitions and execution records they point to, and every caller of   *)
(* ExecuteWorkflow with its position in the code and its local variables; *)
(* and, from src/internal/agent/agent.go, the PluginManager with its lock  *)
(* and the tool-call path of Agent.ProcessMessage.                         *)
(***************************************************************************)
EXTENDS Naturals, Integers, Sequences, FiniteSets, TLC

(***************************************************************************)
(* Bounds of the model.                                                    *)
(***************************************************************************)
\* the clock time.Now() reads runs from 0 up to MaxClock
MaxClock == 1
\* a step declares at most MaxDeps dependencies
MaxDeps == 2

\* the step ids a definition draws its steps and its dependencies from
StepIDs == {"a", "b", "c"}
\* the goroutines that call ExecuteWorkflow
Callers == {"c1", "c2"}

(***************************************************************************)
(* Values.  A nil pointer is 0, a nil error is "<nil>" (as Go prints it),  *)
(* the zero time.Time is -1.  Strings are strings: fmt.Sprintf and         *)
(* fmt.Errorf concatenate the format's literal and its arguments, %d being *)
(* the decimal notation of the number.  A map that may be nil carries the  *)
(* flag isNil beside its entries.  An interface{} that a handler returns   *)
(* is a tuple of strings, its dynamic type first: <<"string", s>>,         *)
(* <<"list", s1, ..., sn>>, <<"map", k1, v1, ..., kn, vn>> with the keys   *)
(* in alphabetical order, and <<"nil">>.                                   *)
(***************************************************************************)
NilPtr == 0
NilError == "<nil>"
NilValue == <<"nil">>
ZeroTime == -1

StringValue(s) == <<"string", s>>
ListValue(l) == <<"list">> \o l

\* make(map[...]...): the empty, non-nil map
EmptyMap == <<>>

\* a nil map[string]interface{} and a made one
NilVariables == [isNil |-> TRUE, m |-> EmptyMap]
MakeVariables == [isNil |-> FALSE, m |-> EmptyMap]

\* m[k] = v on a map
MapSet(m, k, v) == (k :> v) @@ m

\* delete(m, k)
MapDelete(m, k) == [x \in (DOMAIN m) \ {k} |-> m[x]]

VARIABLES
    workflows,    \* we.workflows: key -> pointer into wfHeap
    executions,   \* we.executions: ExecutionID -> pointer into exHeap
    currentStep,  \* we.currentStep: ExecutionID -> <<workflow pointer, step index>>
    stepResults,  \* we.stepResults: ExecutionID -> (step id -> result)
    wfHeap,       \* the Workflow objects, by pointer
    exHeap,       \* the WorkflowExecution objects, by pointer
    now,          \* the clock read by time.Now()
    pending,      \* the definitions the client built and has not registered yet
    loop,         \* what the identifier `loop` of executeStep's `case loop:` is bound to
    pc,           \* per caller: its position in ExecuteWorkflow
    loc,          \* per caller: the local variables of ExecuteWorkflow/executeSteps/executeStep
    ret,          \* per caller: what its ExecuteWorkflow call returned
    regErr,       \* what the last RegisterWorkflow call returned
    got,          \* the last GetExecutionStatus call: its argument and what it returned
    listed,       \* what the last ListWorkflows call returned
    par,          \* the goroutines of a call of executeParallelStep
    mu,           \* the engine's mutex: the caller that holds it, or Unlocked
    pm,           \* the PluginManager and the goroutines that call it
    ag            \* the Agent: its session, its tool executions, its last call

vars == <<workflows, executions, currentStep, stepResults, wfHeap, exHeap,
          now, pending, loop, pc, loc, ret, regErr, got, listed, par, mu, pm, ag>>

engine == <<workflows, executions, currentStep, stepResults, wfHeap, exHeap>>

(***************************************************************************)
(* Step types, error policies and the step handlers.                       *)
(***************************************************************************)
\* the identifier `loop` of executeStep's `case loop:` (written without
\* quotes, declared nowhere in the package): whatever string a build binds it
\* to, "loop" or another one
LoopBindings == {"loop", "<unbound>"}

RecognisedTypes == {"task", "condition", "loop", "parallel", "chat", "tool"}

\* Config[k].(string): the zero value "" when k is absent or holds no string
ConfigString(step, k) ==
    IF k \in DOMAIN step.Config /\ step.Config[k].t = "string"
    THEN step.Config[k].v ELSE ""

\* Config[k].(float64): the zero value 0 when k is absent or holds no
\* float64.  A float64 is modelled by its number of halves (5 is 2.5).
ConfigFloat(step, k) ==
    IF k \in DOMAIN step.Config /\ step.Config[k].t = "float64"
    THEN step.Config[k].v ELSE 0

\* Config[k].(map[string]interface{}), a map being given by its notation:
\* the zero value, a nil map, when k is absent or holds no map
ConfigMap(step, k) ==
    IF k \in DOMAIN step.Config /\ step.Config[k].t = "map"
    THEN step.Config[k].v ELSE "map[]"

\* int(f) of a float64 given in halves: truncation toward zero
IntOfFloat(f) == IF f >= 0 THEN f \div 2 ELSE 0 - ((0 - f) \div 2)

executeTaskStep(step) ==
    {[result |-> StringValue("Task executed: " \o ConfigString(step, "name")),
      err |-> NilError]}

\* executeConditionStep that evaluates: an empty condition, and the
\* condition "false", are not met and fail the step
executeConditionStepStrict(step) ==
    IF ConfigString(step, "condition") \in {"", "false"}
    THEN {[result |-> NilValue, err |-> "condition not met"]}
    ELSE {[result |-> <<"map", "condition_met", "true", "value",
                        ConfigString(step, "condition")>>,
           err |-> NilError]}

\* lines 245-262: both branches return condition_met = true, the condition
\* string and no error
executeConditionStep(step) ==
    {[result |-> <<"map", "condition_met", "true", "value", ConfigString(step, "condition")>>,
      err |-> NilError]}

\* taskCount of executeParallelStep
taskCount == 3

\* the orders in which the branches of executeParallelStep can send on the
\* results channel: every permutation of 1..taskCount
BranchOrders ==
    {s \in [1..taskCount -> 1..taskCount] : \A i, j \in 1..taskCount : i # j => s[i] # s[j]}

executeParallelStep(step) ==
    {[result |-> ListValue([i \in 1..taskCount |->
                                "Parallel task " \o ToString(o[i]) \o " completed"]),
      err |-> NilError] : o \in BranchOrders}

executeLoopStep(step) ==
    LET n == IntOfFloat(ConfigFloat(step, "iterations"))
    IN  {[result |-> ListValue([i \in 1..n |-> "Loop iteration " \o ToString(i)]),
          err |-> NilError]}

executeChatStep(step) ==
    {[result |-> StringValue("Chat response: " \o ConfigString(step, "message")),
      err |-> NilError]}

executeToolStep(step) ==
    {[result |-> <<"map", "args", ConfigMap(step, "args"),
                   "result", "Tool " \o ConfigString(step, "tool") \o " executed",
                   "tool", ConfigString(step, "tool")>>,
      err |-> NilError]}

\* executeStep whose default branch runs the task handler
executeStepLenient(step) ==
    CASE step.Type = "task" -> executeTaskStep(step)
      [] step.Type = "condition" -> executeConditionStep(step)
      [] step.Type = loop -> executeLoopStep(step)
      [] step.Type = "parallel" -> executeParallelStep(step)
      [] step.Type = "chat" -> executeChatStep(step)
      [] step.Type = "tool" -> executeToolStep(step)
      [] OTHER -> executeTaskStep(step)

\* the switch of executeStep: the outcomes (result, err) the handler of step
\* can return, or the unknown-step-type error of the default branch
executeStep(step) ==
    CASE step.Type = "task" -> executeTaskStep(step)
      [] step.Type = "condition" -> executeConditionStep(step)
      [] step.Type = loop -> executeLoopStep(step)
      [] step.Type = "parallel" -> executeParallelStep(step)
      [] step.Type = "chat" -> executeChatStep(step)
      [] step.Type = "tool" -> executeToolStep(step)
      [] OTHER -> {[result |-> NilValue, err |-> "unknown step type: " \o step.Type]}

(***************************************************************************)
(* The definitions a client registers.                                     *)
(***************************************************************************)
\* the (Type, OnError) pairs of the steps of a definition of n steps, in a
\* fixed order.  One step: every type with the unset policy, and every policy
\* on a step that succeeds (task) and on one that fails (bogus).  Two steps:
\* task, and bogus under every policy.  Three steps: task, and bogus under
\* the unset policy and under continue.
KindsOf(n) ==
    LET kind(t, p) == [Type |-> t, OnError |-> p]
        two == <<kind("task", ""), kind("bogus", ""), kind("bogus", "continue"),
                 kind("bogus", "stop"), kind("bogus", "retry"), kind("bogus", "abort")>>
        one == two \o <<kind("condition", ""), kind("loop", ""), kind("parallel", ""),
                        kind("chat", ""), kind("tool", ""), kind("task", "continue"),
                        kind("task", "stop"), kind("task", "retry"), kind("task", "abort")>>
    IN  IF n <= 1 THEN one ELSE IF n = 2 THEN two ELSE SubSeq(two, 1, 3)

\* the Config of a step of type t: the key the type's handler reads
ConfigFor(t) ==
    CASE t = "task" -> [name |-> [t |-> "string", v |-> "T"]]
      [] t = "condition" -> [condition |-> [t |-> "string", v |-> "x > 1"]]
      [] t = "loop" -> [iterations |-> [t |-> "float64", v |-> 4]]
      [] t = "chat" -> [message |-> [t |-> "string", v |-> "hi"]]
      [] t = "tool" -> [tool |-> [t |-> "string", v |-> "echo"]]
      [] OTHER -> EmptyMap

\* the Dependencies a step can declare
DepSets == {d \in SUBSET StepIDs : Cardinality(d) <= MaxDeps}

\* the order in which a definition lists its step ids
IdOrder == <<"a", "b", "c">>

\* the step sequences of n steps with the ids IdOrder[1..n].  The run of a
\* definition with distinct step ids does not depend on which step carries
\* which id, so the ids are given out in the order of KindsOf.
StepSeqs(n) ==
    {[i \in 1..n |-> [ID |-> IdOrder[i], Type |-> KindsOf(n)[k[i]].Type,
                      Config |-> ConfigFor(KindsOf(n)[k[i]].Type),
                      OnError |-> KindsOf(n)[k[i]].OnError, Dependencies |-> d[i]]] :
        k \in {f \in [1..n -> DOMAIN KindsOf(n)] : \A i \in 1..(n - 1) : f[i] <= f[i + 1]},
        d \in [1..n -> DepSets]}

\* the definitions of the default specification: one id, one name, a nil
\* variable bag, zero to three steps
Definitions ==
    {[ID |-> "w1", Name |-> "n1", Steps |-> st, Variables |-> NilVariables] :
        st \in UNION {StepSeqs(n) : n \in 0..Len(IdOrder)}}

\* the keys ExecuteWorkflow is called with
Keys == {"w1", "n1", "nokey"}

\* the variables ExecuteWorkflow is called with
VariableArgs == {("k" :> "v")}

(***************************************************************************)
(* The engine.                                                             *)
(***************************************************************************)
\* the local variables of a caller that has not called yet
NoLocals ==
    [workflow |-> NilPtr, variables |-> EmptyMap, execution |-> NilPtr,
     todo |-> {}, executedSteps |-> {}, remainingSteps |-> EmptyMap,
     scan |-> {}, progress |-> FALSE, id |-> "", out |-> [result |-> NilValue, err |-> NilError],
     err |-> NilError]

\* the mutex of line 49 when no goroutine holds it
Unlocked == "<unlocked>"

\* the goroutines that call the PluginManager: one calls ScanPlugins, the
\* other the remaining operations
Goroutines == {"scanner", "client"}

\* NewPluginManager (agent.go, lines 540-546), and goroutines that have not
\* called yet
NewPluginManager ==
    [mu |-> Unlocked,
     plugins |-> {},
     pc |-> [g \in Goroutines |-> "idle"],
     files |-> <<>>,
     pluginName |-> [g \in Goroutines |-> ""],
     ret |-> [g \in Goroutines |-> <<"nil">>]]

\* the Agent before its first ProcessMessage call: no message in the
\* session, no tool executed
NewAgent ==
    [messages |-> <<>>, executed |-> <<>>, calls |-> 0,
     response |-> [tool |-> FALSE, name |-> "", args |-> "none"],
     result |-> "", err |-> NilError, panic |-> NilError]

\* no GetExecutionStatus call was made yet
NoLookup == [id |-> "", execution |-> NilPtr, err |-> NilError]

\* the capacity of the results channel of executeParallelStep
ChanCap == 10

\* executeParallelStep is not running: no branch was started, the results
\* channel is not made
NoParallel ==
    [pc |-> "idle", i |-> 0, wg |-> 0, results |-> <<>>, closed |-> FALSE,
     branch |-> [idx \in 1..taskCount |-> "none"],
     local |-> [idx \in 1..taskCount |-> ""],
     resultList |-> <<>>, out |-> [result |-> NilValue, err |-> NilError]]

\* whether a definition has a step of the type named "loop"
HasLoopStep(w) == \E i \in DOMAIN w.Steps : w.Steps[i].Type = "loop"

\* NewWorkflowEngine, a client holding the definitions defs, and callers that
\* have not called yet.  The binding of `loop` is told apart only where a
\* definition has a step of type "loop".
InitWith(defs) ==
    /\ workflows = EmptyMap
    /\ executions = EmptyMap
    /\ currentStep = EmptyMap
    /\ stepResults = EmptyMap
    /\ wfHeap = <<>>
    /\ exHeap = <<>>
    /\ now = 0
    /\ pending \in defs
    /\ loop \in IF \E i \in DOMAIN pending : HasLoopStep(pending[i])
                THEN LoopBindings ELSE {"loop"}
    /\ pc = [c \in Callers |-> "idle"]
    /\ loc = [c \in Callers |-> NoLocals]
    /\ ret = [c \in Callers |-> [execution |-> NilPtr, err |-> NilError]]
    /\ regErr = NilError
    /\ got = NoLookup
    /\ listed = <<>>
    /\ par = NoParallel
    /\ mu = Unlocked
    /\ pm = NewPluginManager
    /\ ag = NewAgent

\* the instants a read of the clock can return: the clock does not run
\* backwards, and the model stops it at MaxClock
ClockReads == {t \in {now, now + 1} : t <= MaxClock}

\* generateWorkflowID at instant t
generateWorkflowID(t) == "wf_" \o ToString(t)

\* generateExecutionID at instant t
generateExecutionID(t) == "ex_" \o ToString(t)

\* RegisterWorkflow that stores the definition under its id only
RegisterWorkflowByID ==
    /\ pending # <<>>
    /\ \E t \in ClockReads :
        LET w == Head(pending)
            id == IF w.ID = "" THEN generateWorkflowID(t) ELSE w.ID
            p == Len(wfHeap) + 1
        IN  /\ now' = IF w.ID = "" THEN t ELSE now
            /\ wfHeap' = Append(wfHeap, [w EXCEPT !.ID = id])
            /\ workflows' = MapSet(workflows, id, p)
    /\ pending' = Tail(pending)
    /\ UNCHANGED <<executions, currentStep, stepResults, exHeap, loop, pc, loc, ret>>
    /\ regErr' = NilError
    /\ UNCHANGED <<got, listed, par, mu, pm, ag>>

\* RegisterWorkflow that refuses a definition whose id or name is a key of
\* the registry already
RegisterWorkflowUnique ==
    /\ pending # <<>>
    /\ \E t \in ClockReads :
        LET w == Head(pending)
            id == IF w.ID = "" THEN generateWorkflowID(t) ELSE w.ID
            p == Len(wfHeap) + 1
        IN  /\ now' = IF w.ID = "" THEN t ELSE now
            /\ wfHeap' = Append(wfHeap, [w EXCEPT !.ID = id])
            /\ IF {id, w.Name} \cap DOMAIN workflows = {}
               THEN /\ workflows' = MapSet(MapSet(workflows, id, p), w.Name, p)
                    /\ regErr' = NilError
               ELSE /\ workflows' = workflows
                    /\ regErr' = "duplicate workflow id"
    /\ pending' = Tail(pending)
    /\ UNCHANGED <<executions, currentStep, stepResults, exHeap, loop, pc, loc, ret>>
    /\ UNCHANGED <<got, listed, par, mu, pm, ag>>

\* RegisterWorkflow(workflow) for the next definition of the client
RegisterWorkflow ==
    /\ pending # <<>>
    /\ \E t \in ClockReads :
        LET w == Head(pending)
            id == IF w.ID = "" THEN generateWorkflowID(t) ELSE w.ID
            p == Len(wfHeap) + 1
        IN  /\ now' = IF w.ID = "" THEN t ELSE now
            /\ wfHeap' = Append(wfHeap, [w EXCEPT !.ID = id])
            /\ workflows' = MapSet(MapSet(workflows, id, p), w.Name, p)
    /\ pending' = Tail(pending)
    /\ UNCHANGED <<executions, currentStep, stepResults, exHeap, loop, pc, loc, ret>>
    /\ regErr' = NilError
    /\ UNCHANGED <<got, listed, par, mu, pm, ag>>

\* the Workflow, the WorkflowExecution and the ExecutionID of caller c's run
WorkflowOf(c) == wfHeap[loc[c].workflow]
ExecutionOf(c) == exHeap[loc[c].execution]
ExecutionIDOf(c) == exHeap[loc[c].execution].ExecutionID

\* ExecuteWorkflow that makes room for the run's step results before it
\* looks the workflow up
ExecuteWorkflowEager(c, workflowID, variables) ==
    /\ pc[c] = "idle"
    /\ stepResults' = MapSet(stepResults, generateExecutionID(now), EmptyMap)
    /\ IF workflowID \in DOMAIN workflows
       THEN /\ loc' = [loc EXCEPT ![c].workflow = workflows[workflowID],
                                  ![c].variables = variables]
            /\ pc' = [pc EXCEPT ![c] = "create"]
            /\ ret' = ret
       ELSE /\ ret' = [ret EXCEPT ![c] = [execution |-> NilPtr,
                                          err |-> "workflow not found: " \o workflowID]]
            /\ pc' = [pc EXCEPT ![c] = "returned"]
            /\ loc' = loc
    /\ UNCHANGED <<workflows, executions, currentStep, wfHeap, exHeap, now, pending, loop>>
    /\ UNCHANGED <<regErr, got, listed, par, mu, pm, ag>>

\* ExecuteWorkflow that runs a copy of the definition it found
ExecuteWorkflowCopy(c, workflowID, variables) ==
    /\ pc[c] = "idle"
    /\ IF workflowID \in DOMAIN workflows
       THEN /\ wfHeap' = Append(wfHeap, wfHeap[workflows[workflowID]])
            /\ loc' = [loc EXCEPT ![c].workflow = Len(wfHeap) + 1,
                                  ![c].variables = variables]
            /\ pc' = [pc EXCEPT ![c] = "create"]
            /\ ret' = ret
       ELSE /\ ret' = [ret EXCEPT ![c] = [execution |-> NilPtr,
                                          err |-> "workflow not found: " \o workflowID]]
            /\ pc' = [pc EXCEPT ![c] = "returned"]
            /\ loc' = loc
            /\ wfHeap' = wfHeap
    /\ UNCHANGED <<workflows, executions, currentStep, stepResults, exHeap,
                   now, pending, loop>>
    /\ UNCHANGED <<regErr, got, listed, par, mu, pm, ag>>

\* ExecuteWorkflow(workflowID, variables), lines 80-86: the lookup, and the
\* return of (nil, workflow not found) when it fails
ExecuteWorkflow(c, workflowID, variables) ==
    /\ pc[c] = "idle"
    /\ IF workflowID \in DOMAIN workflows
       THEN /\ loc' = [loc EXCEPT ![c].workflow = workflows[workflowID],
                                  ![c].variables = variables]
            /\ pc' = [pc EXCEPT ![c] = "create"]
            /\ ret' = ret
       ELSE /\ ret' = [ret EXCEPT ![c] = [execution |-> NilPtr,
                                          err |-> "workflow not found: " \o workflowID]]
            /\ pc' = [pc EXCEPT ![c] = "returned"]
            /\ loc' = loc
    /\ UNCHANGED <<engine, now, pending, loop>>
    /\ UNCHANGED <<regErr, got, listed, par, mu, pm, ag>>

\* NewExecution with a record that starts as "pending"
NewExecutionPending(workflow, t1, t2) ==
    [WorkflowID |-> workflow.ID,
     ExecutionID |-> generateExecutionID(t1),
     StartTime |-> t2,
     EndTime |-> ZeroTime,
     Status |-> "pending",
     StepStatus |-> EmptyMap,
     Outputs |-> EmptyMap,
     Error |-> NilError]

\* the WorkflowExecution literal of lines 89-96, the id read at instant t1 and
\* the start time at instant t2
NewExecution(workflow, t1, t2) ==
    [WorkflowID |-> workflow.ID,
     ExecutionID |-> generateExecutionID(t1),
     StartTime |-> t2,
     EndTime |-> ZeroTime,
     Status |-> "running",
     StepStatus |-> EmptyMap,
     Outputs |-> EmptyMap,
     Error |-> NilError]

\* lines 88-96: the execution record is created
CreateExecution(c) ==
    /\ pc[c] = "create"
    /\ \E t1 \in ClockReads :
       \E t2 \in {t \in {t1, t1 + 1} : t <= MaxClock} :
        /\ now' = t2
        /\ exHeap' = Append(exHeap, NewExecution(WorkflowOf(c), t1, t2))
    /\ loc' = [loc EXCEPT ![c].execution = Len(exHeap) + 1]
    /\ pc' = [pc EXCEPT ![c] = "variables"]
    /\ UNCHANGED <<workflows, executions, currentStep, stepResults, wfHeap,
                   pending, loop, ret>>
    /\ UNCHANGED <<regErr, got, listed, par, mu, pm, ag>>

\* line 99: the test of the definition's variable bag against nil; no lock
\* is held, so that another call can act between the test and line 100
InitVariables(c) ==
    /\ pc[c] = "variables"
    /\ loc' = [loc EXCEPT ![c].todo = DOMAIN loc[c].variables]
    /\ pc' = [pc EXCEPT ![c] = IF WorkflowOf(c).Variables.isNil THEN "make" ELSE "merge"]
    /\ UNCHANGED <<workflows, executions, currentStep, stepResults, wfHeap, exHeap,
                   now, pending, loop, ret>>
    /\ UNCHANGED <<regErr, got, listed, par, mu, pm, ag>>

\* line 100: the bag that was found nil is replaced by a made one
AssignVariables(c) ==
    /\ pc[c] = "make"
    /\ wfHeap' = [wfHeap EXCEPT ![loc[c].workflow].Variables = MakeVariables]
    /\ pc' = [pc EXCEPT ![c] = "merge"]
    /\ UNCHANGED <<workflows, executions, currentStep, stepResults, exHeap,
                   now, pending, loop, loc, ret>>
    /\ UNCHANGED <<regErr, got, listed, par, mu, pm, ag>>

\* MergeVariable that keeps the value of a key the bag has already
MergeVariableKeepOld(c) ==
    /\ pc[c] = "merge"
    /\ \E k \in loc[c].todo :
        /\ wfHeap' = [wfHeap EXCEPT ![loc[c].workflow].Variables.m =
                          IF k \in DOMAIN @ THEN @ ELSE MapSet(@, k, loc[c].variables[k])]
        /\ loc' = [loc EXCEPT ![c].todo = @ \ {k}]
    /\ UNCHANGED <<workflows, executions, currentStep, stepResults, exHeap,
                   now, pending, loop, pc, ret>>
    /\ UNCHANGED <<regErr, got, listed, par, mu, pm, ag>>

\* lines 102-104: one iteration of the range over variables, in any order
MergeVariable(c) ==
    /\ pc[c] = "merge"
    /\ \E k \in loc[c].todo :
        /\ wfHeap' = [wfHeap EXCEPT ![loc[c].workflow].Variables.m =
                          MapSet(@, k, loc[c].variables[k])]
        /\ loc' = [loc EXCEPT ![c].todo = @ \ {k}]
    /\ UNCHANGED <<workflows, executions, currentStep, stepResults, exHeap,
                   now, pending, loop, pc, ret>>
    /\ UNCHANGED <<regErr, got, listed, par, mu, pm, ag>>

\* InitialRemaining that keeps the earlier of two steps with one id
InitialRemainingFirst(workflow) ==
    [id \in {workflow.Steps[i].ID : i \in DOMAIN workflow.Steps} |->
        CHOOSE i \in DOMAIN workflow.Steps :
            /\ workflow.Steps[i].ID = id
            /\ \A j \in DOMAIN workflow.Steps : workflow.Steps[j].ID = id => i <= j]

\* lines 131-137 of executeSteps: remainingSteps, step id -> index of the
\* step; of two steps with one id the later one stays
InitialRemaining(workflow) ==
    [id \in {workflow.Steps[i].ID : i \in DOMAIN workflow.Steps} |->
        CHOOSE i \in DOMAIN workflow.Steps :
            /\ workflow.Steps[i].ID = id
            /\ \A j \in DOMAIN workflow.Steps : workflow.Steps[j].ID = id => j <= i]

\* lines 106-109, and executeSteps up to its first pass (lines 131-141): the
\* record is put in the registries; with no step executeSteps returns nil
RegisterExecution(c) ==
    /\ pc[c] = "merge"
    /\ loc[c].todo = {}
    /\ executions' = MapSet(executions, ExecutionIDOf(c), loc[c].execution)
    /\ stepResults' = MapSet(stepResults, ExecutionIDOf(c), EmptyMap)
    /\ LET remaining == InitialRemaining(WorkflowOf(c))
       IN  /\ loc' = [loc EXCEPT ![c].executedSteps = {},
                                  ![c].remainingSteps = remaining,
                                  ![c].progress = FALSE,
                                  ![c].scan = DOMAIN remaining,
                                  ![c].err = NilError]
           /\ pc' = [pc EXCEPT ![c] = IF DOMAIN remaining = {} THEN "status" ELSE "scan"]
    /\ UNCHANGED <<workflows, currentStep, wfHeap, exHeap, now, pending, loop, ret>>
    /\ UNCHANGED <<regErr, got, listed, par, mu, pm, ag>>

\* canExecute with the loop's test inverted: one dependency in executedSteps
\* is enough
canExecuteAny(step, executedSteps) ==
    \/ step.Dependencies = {}
    \/ \E dep \in step.Dependencies : dep \in executedSteps

\* lines 146-152: every dependency of step is in executedSteps
canExecute(step, executedSteps) ==
    \A dep \in step.Dependencies : dep \in executedSteps

\* the step of caller c's run with the id `id`
StepOf(c, id) == WorkflowOf(c).Steps[loc[c].remainingSteps[id]]

\* the steps the range has not visited in this pass and that can execute
Runnable(c) ==
    {id \in loc[c].scan : canExecute(StepOf(c, id), loc[c].executedSteps)}

\* ScanStep that leaves executeStep's first Lock of the mutex (line 193)
\* without its Unlock
ScanStepHolding(c) ==
    /\ pc[c] = "scan"
    /\ \E id \in Runnable(c) :
       \E skipped \in SUBSET (loc[c].scan \ Runnable(c)) :
        /\ currentStep' = MapSet(currentStep, ExecutionIDOf(c),
                                 <<loc[c].workflow, loc[c].remainingSteps[id]>>)
        /\ loc' = [loc EXCEPT ![c].scan = @ \ (skipped \cup {id}), ![c].id = id]
        /\ pc' = [pc EXCEPT ![c] = "handler"]
    /\ UNCHANGED <<workflows, executions, stepResults, wfHeap, exHeap,
                   now, pending, loop, ret>>
    /\ UNCHANGED <<regErr, got, listed, par>>
    /\ mu' = c
    /\ UNCHANGED <<pm, ag>>

\* lines 144-159 and 193-195: the range goes on, in any order, over steps it
\* has not visited in this pass: it skips steps with an unmet dependency
\* (skipped), reaches a step that can execute, dispatches it and records it
\* as the run's current step
ScanStep(c) ==
    /\ pc[c] = "scan"
    /\ \E id \in Runnable(c) :
       \E skipped \in SUBSET (loc[c].scan \ Runnable(c)) :
        /\ currentStep' = MapSet(currentStep, ExecutionIDOf(c),
                                 <<loc[c].workflow, loc[c].remainingSteps[id]>>)
        /\ loc' = [loc EXCEPT ![c].scan = @ \ (skipped \cup {id}), ![c].id = id]
        /\ pc' = [pc EXCEPT ![c] = "handler"]
    /\ UNCHANGED <<workflows, executions, stepResults, wfHeap, exHeap,
                   now, pending, loop, ret>>
    /\ UNCHANGED <<regErr, got, listed, par, mu, pm, ag>>

\* lines 203-232: the handler runs and, when it returned no error, its result
\* is stored in stepResults
RunHandler(c) ==
    /\ pc[c] = "handler"
    /\ \E out \in executeStep(StepOf(c, loc[c].id)) :
        /\ stepResults' =
              IF out.err = NilError
              THEN [stepResults EXCEPT ![ExecutionIDOf(c)] =
                       MapSet(@, StepOf(c, loc[c].id).ID, out.result)]
              ELSE stepResults
        /\ loc' = [loc EXCEPT ![c].out = out]
    /\ pc' = [pc EXCEPT ![c] = "record"]
    /\ UNCHANGED <<workflows, executions, currentStep, wfHeap, exHeap,
                   now, pending, loop, ret>>
    /\ UNCHANGED <<regErr, got, listed, par, mu, pm, ag>>

\* StopsOn with "retry" among the policies that return the error
StopsOnRetry(onError) == onError \in {"stop", "", "retry"}

\* StopsOn without the empty string in the case list
StopsOnExplicit(onError) == onError = "stop"

\* the switch of lines 165-173: whether a failed step with this OnError
\* makes executeSteps return the error
StopsOn(onError) == onError \in {"stop", ""}

\* MarkExecuted that forgets the steps executed before
MarkExecutedNone(executedSteps, id, failed) == {id}

\* MarkExecuted that leaves a failed step out of executedSteps
MarkExecutedOnSuccess(executedSteps, id, failed) ==
    IF failed THEN executedSteps ELSE executedSteps \cup {id}

\* line 178: executedSteps after the step id was processed, failed or not
MarkExecuted(executedSteps, id, failed) == executedSteps \cup {id}

\* Unqueue without the delete
UnqueueNothing(remainingSteps, id) == remainingSteps

\* line 179: remainingSteps after the step id was processed
Unqueue(remainingSteps, id) == MapDelete(remainingSteps, id)

\* RecordStep that reaches the record through the execution registry, by
\* its ExecutionID, and not through the pointer the run holds
RecordStepByID(c) ==
    /\ pc[c] = "record"
    /\ LET id == loc[c].id
           failed == loc[c].out.err # NilError
       IN  /\ exHeap' = [exHeap EXCEPT ![executions[ExecutionIDOf(c)]].StepStatus =
                             MapSet(@, id, IF failed THEN "failed" ELSE "completed")]
           /\ IF failed /\ StopsOn(StepOf(c, id).OnError)
              THEN /\ loc' = [loc EXCEPT ![c].err = loc[c].out.err]
                   /\ pc' = [pc EXCEPT ![c] = "status"]
              ELSE /\ loc' = [loc EXCEPT ![c].executedSteps = MarkExecuted(@, id, failed),
                                         ![c].remainingSteps = Unqueue(@, id),
                                         ![c].progress = TRUE]
                   /\ pc' = [pc EXCEPT ![c] = "scan"]
    /\ UNCHANGED <<workflows, executions, currentStep, stepResults, wfHeap,
                   now, pending, loop, ret>>
    /\ UNCHANGED <<regErr, got, listed, par, mu, pm, ag>>

\* RecordStep that returns the error of a step failed under the stop policy
\* before it writes the step's status
RecordStepUnrecorded(c) ==
    /\ pc[c] = "record"
    /\ LET id == loc[c].id
           failed == loc[c].out.err # NilError
       IN  IF failed /\ StopsOn(StepOf(c, id).OnError)
           THEN /\ exHeap' = exHeap
                /\ loc' = [loc EXCEPT ![c].err = loc[c].out.err]
                /\ pc' = [pc EXCEPT ![c] = "status"]
           ELSE /\ exHeap' = [exHeap EXCEPT ![loc[c].execution].StepStatus =
                                  MapSet(@, id, IF failed THEN "failed" ELSE "completed")]
                /\ loc' = [loc EXCEPT ![c].executedSteps = MarkExecuted(@, id, failed),
                                       ![c].remainingSteps = Unqueue(@, id),
                                       ![c].progress = TRUE]
                /\ pc' = [pc EXCEPT ![c] = "scan"]
    /\ UNCHANGED <<workflows, executions, currentStep, stepResults, wfHeap,
                   now, pending, loop, ret>>
    /\ UNCHANGED <<regErr, got, listed, par, mu, pm, ag>>

\* lines 160-181: the step's status is recorded; a failure under the stop
\* policy returns the error, anything else moves the step to executedSteps
RecordStep(c) ==
    /\ pc[c] = "record"
    /\ LET id == loc[c].id
           failed == loc[c].out.err # NilError
       IN  /\ exHeap' = [exHeap EXCEPT ![loc[c].execution].StepStatus =
                             MapSet(@, id, IF failed THEN "failed" ELSE "completed")]
           /\ IF failed /\ StopsOn(StepOf(c, id).OnError)
              THEN /\ loc' = [loc EXCEPT ![c].err = loc[c].out.err]
                   /\ pc' = [pc EXCEPT ![c] = "status"]
              ELSE /\ loc' = [loc EXCEPT ![c].executedSteps = MarkExecuted(@, id, failed),
                                         ![c].remainingSteps = Unqueue(@, id),
                                         ![c].progress = TRUE]
                   /\ pc' = [pc EXCEPT ![c] = "scan"]
    /\ UNCHANGED <<workflows, executions, currentStep, stepResults, wfHeap,
                   now, pending, loop, ret>>
    /\ UNCHANGED <<regErr, got, listed, par, mu, pm, ag>>

\* line 184: the error of a pass without progress
StuckError == "workflow stuck: circular dependencies or unmet dependencies"

\* EndPass that leaves the loop without the stuck error when a pass made no
\* progress
EndPassUnchecked(c) ==
    /\ pc[c] = "scan"
    /\ Runnable(c) = {}
    /\ IF ~loc[c].progress \/ DOMAIN loc[c].remainingSteps = {}
       THEN /\ loc' = [loc EXCEPT ![c].err = NilError]
            /\ pc' = [pc EXCEPT ![c] = "status"]
       ELSE /\ loc' = [loc EXCEPT ![c].progress = FALSE,
                                  ![c].scan = DOMAIN loc[c].remainingSteps]
            /\ pc' = pc
    /\ UNCHANGED <<engine, now, pending, loop, ret>>
    /\ UNCHANGED <<regErr, got, listed, par, mu, pm, ag>>

\* EndPass that returns the stuck error after any pass that left a step,
\* whether the pass made progress or not
EndPassOnePass(c) ==
    /\ pc[c] = "scan"
    /\ Runnable(c) = {}
    /\ IF DOMAIN loc[c].remainingSteps # {}
       THEN /\ loc' = [loc EXCEPT ![c].err = StuckError]
            /\ pc' = [pc EXCEPT ![c] = "status"]
       ELSE /\ loc' = [loc EXCEPT ![c].err = NilError]
            /\ pc' = [pc EXCEPT ![c] = "status"]
    /\ UNCHANGED <<engine, now, pending, loop, ret>>
    /\ UNCHANGED <<regErr, got, listed, par, mu, pm, ag>>

\* lines 140-156 and 183-188: the range skips the steps left, none of which
\* can execute, and the pass is over; without progress executeSteps returns
\* the stuck error, with no step left it returns nil, and otherwise the next
\* pass starts
EndPass(c) ==
    /\ pc[c] = "scan"
    /\ Runnable(c) = {}
    /\ IF ~loc[c].progress
       THEN /\ loc' = [loc EXCEPT ![c].err = StuckError]
            /\ pc' = [pc EXCEPT ![c] = "status"]
       ELSE IF DOMAIN loc[c].remainingSteps = {}
       THEN /\ loc' = [loc EXCEPT ![c].err = NilError]
            /\ pc' = [pc EXCEPT ![c] = "status"]
       ELSE /\ loc' = [loc EXCEPT ![c].progress = FALSE,
                                  ![c].scan = DOMAIN loc[c].remainingSteps]
            /\ pc' = pc
    /\ UNCHANGED <<engine, now, pending, loop, ret>>
    /\ UNCHANGED <<regErr, got, listed, par, mu, pm, ag>>

\* Finalize that lets a failed entry of StepStatus fail the run
FinalizeStrict(execution, err) ==
    IF err # NilError
    THEN [execution EXCEPT !.Status = "failed", !.Error = err]
    ELSE IF \E id \in DOMAIN execution.StepStatus : execution.StepStatus[id] = "failed"
    THEN [execution EXCEPT !.Status = "failed"]
    ELSE [execution EXCEPT !.Status = "completed"]

\* Finalize without the assignment of line 115
FinalizeStatusOnly(execution, err) ==
    IF err # NilError
    THEN [execution EXCEPT !.Status = "failed"]
    ELSE [execution EXCEPT !.Status = "completed"]

\* lines 113-118: the record with the run's status and error, err being what
\* executeSteps returned
Finalize(execution, err) ==
    IF err # NilError
    THEN [execution EXCEPT !.Status = "failed", !.Error = err]
    ELSE [execution EXCEPT !.Status = "completed"]

\* lines 112-118: the run's status and error
SetStatus(c) ==
    /\ pc[c] = "status"
    /\ exHeap' = [exHeap EXCEPT ![loc[c].execution] = Finalize(@, loc[c].err)]
    /\ pc' = [pc EXCEPT ![c] = "endtime"]
    /\ UNCHANGED <<workflows, executions, currentStep, stepResults, wfHeap,
                   now, pending, loop, loc, ret>>
    /\ UNCHANGED <<regErr, got, listed, par, mu, pm, ag>>

\* Returned that hands executeSteps' error to the caller
ReturnedWithError(execution, err) == [execution |-> execution, err |-> err]

\* line 125: what ExecuteWorkflow returns for a run whose executeSteps
\* returned err
Returned(execution, err) == [execution |-> execution, err |-> NilError]

\* lines 120-125: the end time, and the return of (execution, nil)
SetEndTime(c) ==
    /\ pc[c] = "endtime"
    /\ \E t \in ClockReads :
        /\ now' = t
        /\ exHeap' = [exHeap EXCEPT ![loc[c].execution].EndTime = t]
    /\ ret' = [ret EXCEPT ![c] = Returned(loc[c].execution, loc[c].err)]
    /\ pc' = [pc EXCEPT ![c] = "returned"]
    /\ UNCHANGED <<workflows, executions, currentStep, stepResults, wfHeap,
                   pending, loop, loc>>
    /\ UNCHANGED <<regErr, got, listed, par, mu, pm, ag>>

(***************************************************************************)
(* The default specification: a client registers one definition, and one   *)
(* caller makes one ExecuteWorkflow call at any moment.                    *)
(***************************************************************************)
Caller == "c1"

Init == InitWith({<<w>> : w \in Definitions})

Next ==
    \/ RegisterWorkflow
    \/ \E k \in Keys, v \in VariableArgs : ExecuteWorkflow(Caller, k, v)
    \/ CreateExecution(Caller)
    \/ InitVariables(Caller)
    \/ AssignVariables(Caller)
    \/ MergeVariable(Caller)
    \/ RegisterExecution(Caller)
    \/ ScanStep(Caller)
    \/ RunHandler(Caller)
    \/ RecordStep(Caller)
    \/ EndPass(Caller)
    \/ SetStatus(Caller)
    \/ SetEndTime(Caller)

Spec == Init /\ [][Next]_vars

\* the same under the scheduler's guarantee: a goroutine that can take a step
\* takes one
FairSpec == Spec /\ WF_vars(Next)

(***************************************************************************)
(* GetExecutionStatus, and the concurrent specification: a client          *)
(* registers one definition, the callers call ExecuteWorkflow at any       *)
(* moment, each from its own goroutine, and an observer calls              *)
(* GetExecutionStatus at any moment.                                       *)
(***************************************************************************)
\* lines 328-338: the lookup of executionID under the read lock
GetExecutionStatus(executionID) ==
    /\ got' = IF executionID \in DOMAIN executions
              THEN [id |-> executionID, execution |-> executions[executionID],
                    err |-> NilError]
              ELSE [id |-> executionID, execution |-> NilPtr,
                    err |-> "execution not found: " \o executionID]
    /\ UNCHANGED <<engine, now, pending, loop, pc, loc, ret, regErr, listed, par, mu, pm, ag>>

\* the ids GetExecutionStatus is called with: the ids generateExecutionID
\* can return, and one it cannot
ExecutionIDs == {generateExecutionID(t) : t \in 0..MaxClock} \cup {"ex_none"}

\* the definitions of the concurrent specification
ConcDefinitions ==
    LET step(id, t, p, d) == [ID |-> id, Type |-> t, Config |-> ConfigFor(t),
                              OnError |-> p, Dependencies |-> d]
    IN  {[ID |-> "w1", Name |-> "n1", Steps |-> st, Variables |-> NilVariables] :
            st \in {<<>>,
                    <<step("a", "task", "", {})>>,
                    <<step("a", "bogus", "", {})>>,
                    <<step("a", "bogus", "continue", {}), step("b", "task", "", {"a"})>>}}

ConcInit == InitWith({<<w>> : w \in ConcDefinitions})

\* the steps of caller c's ExecuteWorkflow call after the lookup
RunNext(c) ==
    \/ CreateExecution(c)
    \/ InitVariables(c)
    \/ AssignVariables(c)
    \/ MergeVariable(c)
    \/ RegisterExecution(c)
    \/ ScanStep(c)
    \/ RunHandler(c)
    \/ RecordStep(c)
    \/ EndPass(c)
    \/ SetStatus(c)
    \/ SetEndTime(c)

\* the steps of caller c's goroutine
CallerNext(c) ==
    \/ \E k \in Keys, v \in VariableArgs : ExecuteWorkflow(c, k, v)
    \/ RunNext(c)

\* lines 102-104 in two goroutines at once: both are about to assign to the
\* map of one definition with no lock held, and the runtime, when it
\* detects the two writes, ends the process with "fatal error: concurrent
\* map writes"
ConcurrentMapWrites ==
    /\ \E c, d \in Callers :
          /\ c # d
          /\ pc[c] = "merge" /\ pc[d] = "merge"
          /\ loc[c].todo # {} /\ loc[d].todo # {}
          /\ loc[c].workflow = loc[d].workflow
    /\ pc' = [c \in Callers |-> "crashed"]
    /\ UNCHANGED <<engine, now, pending, loop, loc, ret, regErr, got, listed, par, mu, pm, ag>>

ConcNext ==
    \/ RegisterWorkflow
    \/ \E c \in Callers : CallerNext(c)
    \/ ConcurrentMapWrites
    \/ \E id \in ExecutionIDs : GetExecutionStatus(id)

ConcSpec == ConcInit /\ [][ConcNext]_vars

(***************************************************************************)
(* ListWorkflows, and the registry specification: a single-threaded        *)
(* client, as TestWorkflowEngine is, registers two definitions, lists the  *)
(* workflows and makes one ExecuteWorkflow call, one call at a time.       *)
(***************************************************************************)
\* the orders in which a range over the map m can visit its keys
RangeOrders(m) ==
    LET n == Cardinality(DOMAIN m)
    IN  {o \in [1..n -> DOMAIN m] : \A i, j \in 1..n : i # j => o[i] # o[j]}

\* ListWorkflows that leaves the last entry of the range out
ListWorkflowsShort ==
    /\ \E o \in RangeOrders(workflows) :
          listed' = [i \in 1..(Len(o) - 1) |-> workflows[o[i]]]
    /\ UNCHANGED <<engine, now, pending, loop, pc, loc, ret, regErr, got, par, mu, pm, ag>>

\* lines 341-350: one entry of the result for every key of we.workflows, in
\* the order of the range
ListWorkflows ==
    /\ \E o \in RangeOrders(workflows) :
          listed' = [i \in 1..Len(o) |-> workflows[o[i]]]
    /\ UNCHANGED <<engine, now, pending, loop, pc, loc, ret, regErr, got, par, mu, pm, ag>>

\* the definitions of the registry specification: an id that is unset, or
\* that is another definition's name; without steps and with a nil variable
\* bag, or with one step and two variables
RegDefinitions ==
    LET step == [ID |-> "a", Type |-> "task", Config |-> ConfigFor("task"),
                 OnError |-> "", Dependencies |-> {}]
        bag == [isNil |-> FALSE, m |-> ("j" :> "keep") @@ ("k" :> "old")]
    IN  {[ID |-> id, Name |-> name, Steps |-> sv[1], Variables |-> sv[2]] :
            id \in {"", "w1", "n1"}, name \in {"n1", "n2"},
            sv \in {<<<<>>, NilVariables>>, <<<<step>>, bag>>}}

\* the keys ExecuteWorkflow is called with in the registry specification
RegKeys == {"w1", "n1", "n2"} \cup {generateWorkflowID(t) : t \in 0..MaxClock}

\* no ExecuteWorkflow call is under way
Quiet == \A c \in Callers : pc[c] \in {"idle", "returned"}

RegistryInit == InitWith({<<v, w>> : v, w \in RegDefinitions})

RegistryNext ==
    \/ Quiet /\ RegisterWorkflow
    \/ Quiet /\ ListWorkflows
    \/ \E k \in RegKeys, v \in VariableArgs : ExecuteWorkflow(Caller, k, v)
    \/ RunNext(Caller)

RegistrySpec == RegistryInit /\ [][RegistryNext]_vars

(***************************************************************************)
(* The variables specification: a single-threaded client registers one     *)
(* definition, with a nil variable bag or with one that holds two          *)
(* variables, and makes two ExecuteWorkflow calls one after the other.     *)
(***************************************************************************)
VarDefinitions ==
    LET step == [ID |-> "a", Type |-> "task", Config |-> ConfigFor("task"),
                 OnError |-> "", Dependencies |-> {}]
        bag == [isNil |-> FALSE, m |-> ("j" :> "keep") @@ ("k" :> "old")]
    IN  {[ID |-> "w1", Name |-> "n1", Steps |-> <<step>>, Variables |-> b] :
            b \in {NilVariables, bag}}

\* the variables ExecuteWorkflow is called with in the variables
\* specification: none, a key the bag may hold, and a second key
VarArgs == {EmptyMap, ("k" :> "v"), ("i" :> "u") @@ ("k" :> "v2")}

VarInit == InitWith({<<w>> : w \in VarDefinitions})

VarNext ==
    \/ Quiet /\ RegisterWorkflow
    \/ \E c \in Callers :
          \/ Quiet /\ \E k \in Keys, v \in VarArgs : ExecuteWorkflow(c, k, v)
          \/ RunNext(c)

VarSpec == VarInit /\ [][VarNext]_vars

(***************************************************************************)
(* executeParallelStep goroutine by goroutine, and the parallel            *)
(* specification: one call of executeParallelStep.                         *)
(***************************************************************************)
\* lines 282-285: the wait group and the results channel are made
ParStart ==
    /\ par.pc = "idle"
    /\ par' = [NoParallel EXCEPT !.pc = "spawn"]
    /\ UNCHANGED <<engine, now, pending, loop, pc, loc, ret, regErr, got, listed, mu, pm, ag>>

\* lines 286-293: one iteration of the loop, wg.Add(1) and the go statement,
\* or the end of the loop
ParSpawn ==
    /\ par.pc = "spawn"
    /\ par' = IF par.i < taskCount
              THEN [par EXCEPT !.wg = @ + 1, !.branch[par.i + 1] = "format", !.i = @ + 1]
              ELSE [par EXCEPT !.pc = "wait"]
    /\ UNCHANGED <<engine, now, pending, loop, pc, loc, ret, regErr, got, listed, mu, pm, ag>>

\* line 290, in the branch started with idx = b - 1
BranchFormat(b) ==
    /\ par.branch[b] = "format"
    /\ par' = [par EXCEPT !.local[b] = "Parallel task " \o ToString(b) \o " completed",
                          !.branch[b] = "send"]
    /\ UNCHANGED <<engine, now, pending, loop, pc, loc, ret, regErr, got, listed, mu, pm, ag>>

\* line 291: the send, which waits while the channel is full and panics on
\* a closed channel
BranchSend(b) ==
    /\ par.branch[b] = "send"
    /\ Len(par.results) < ChanCap
    /\ par' = IF par.closed
              THEN [par EXCEPT !.pc = "panic", !.branch[b] = "panic"]
              ELSE [par EXCEPT !.results = Append(@, par.local[b]), !.branch[b] = "done"]
    /\ UNCHANGED <<engine, now, pending, loop, pc, loc, ret, regErr, got, listed, mu, pm, ag>>

\* line 289: the deferred wg.Done() as the branch returns
BranchDone(b) ==
    /\ par.branch[b] = "done"
    /\ par' = [par EXCEPT !.wg = @ - 1, !.branch[b] = "exited"]
    /\ UNCHANGED <<engine, now, pending, loop, pc, loc, ret, regErr, got, listed, mu, pm, ag>>

\* ParWait that does not wait for the counter of the wait group
ParNoWait ==
    /\ par.pc = "wait"
    /\ par' = [par EXCEPT !.pc = "close"]
    /\ UNCHANGED <<engine, now, pending, loop, pc, loc, ret, regErr, got, listed, mu, pm, ag>>

\* line 295: wg.Wait() returns when the counter is zero
ParWait ==
    /\ par.pc = "wait"
    /\ par.wg = 0
    /\ par' = [par EXCEPT !.pc = "close"]
    /\ UNCHANGED <<engine, now, pending, loop, pc, loc, ret, regErr, got, listed, mu, pm, ag>>

\* line 296
ParClose ==
    /\ par.pc = "close"
    /\ par' = [par EXCEPT !.closed = TRUE, !.pc = "collect"]
    /\ UNCHANGED <<engine, now, pending, loop, pc, loc, ret, regErr, got, listed, mu, pm, ag>>

\* lines 298-303: one iteration of the range over the channel, or, the
\* channel being closed and drained, the return of (resultList, nil)
ParCollect ==
    /\ par.pc = "collect"
    /\ par.results # <<>> \/ par.closed
    /\ par' = IF par.results # <<>>
              THEN [par EXCEPT !.resultList = Append(@, Head(par.results)),
                               !.results = Tail(@)]
              ELSE [par EXCEPT !.pc = "returned",
                               !.out = [result |-> ListValue(par.resultList),
                                        err |-> NilError]]
    /\ UNCHANGED <<engine, now, pending, loop, pc, loc, ret, regErr, got, listed, mu, pm, ag>>

ParInit == InitWith({<<>>})

ParNext ==
    \/ ParStart
    \/ ParSpawn
    \/ \E b \in 1..taskCount : BranchFormat(b) \/ BranchSend(b) \/ BranchDone(b)
    \/ ParWait
    \/ ParClose
    \/ ParCollect

ParSpec == ParInit /\ [][ParNext]_vars

\* the same under the scheduler's guarantee: a goroutine that can take a step
\* takes one
ParFairSpec == ParSpec /\ WF_vars(ParNext)

(***************************************************************************)
(* The shared-id specification: a client registers one definition whose    *)
(* steps may share an id, and one caller makes one ExecuteWorkflow call.   *)
(***************************************************************************)
\* the (Type, OnError) pairs of the steps of the shared-id definitions
DupKinds(n) ==
    LET kind(t, p) == [Type |-> t, OnError |-> p]
    IN  IF n = 2
        THEN {kind("task", ""), kind("bogus", "continue"), kind("bogus", "")}
        ELSE {kind("task", ""), kind("bogus", "continue")}

\* the ids of the steps of the shared-id definitions, in definition order
DupIds(n) ==
    IF n = 2 THEN [1..2 -> {"a", "b"}] ELSE {<<"a", "b", "a">>, <<"a", "a", "b">>}

\* the Dependencies of the steps of the shared-id definitions
DupDeps(n) == IF n = 2 THEN SUBSET {"a", "b"} ELSE {{}, {"a"}, {"b"}}

DupDefinitions ==
    {[ID |-> "w1", Name |-> "n1", Variables |-> NilVariables,
      Steps |-> [i \in 1..Len(ids) |->
                    [ID |-> ids[i], Type |-> k[i].Type, Config |-> ConfigFor(k[i].Type),
                     OnError |-> k[i].OnError, Dependencies |-> d[i]]]] :
        ids \in DupIds(2), k \in [1..2 -> DupKinds(2)], d \in [1..2 -> DupDeps(2)]}
    \cup
    {[ID |-> "w1", Name |-> "n1", Variables |-> NilVariables,
      Steps |-> [i \in 1..Len(ids) |->
                    [ID |-> ids[i], Type |-> k[i].Type, Config |-> ConfigFor(k[i].Type),
                     OnError |-> k[i].OnError, Dependencies |-> d[i]]]] :
        ids \in DupIds(3), k \in [1..3 -> DupKinds(3)], d \in [1..3 -> DupDeps(3)]}

DupInit == InitWith({<<w>> : w \in DupDefinitions})

DupSpec == DupInit /\ [][Next]_vars

\* the same under the scheduler's guarantee: a goroutine that can take a step
\* takes one
DupFairSpec == DupSpec /\ WF_vars(Next)

(***************************************************************************)
(* The shared-bag specification: a client registers one definition, with   *)
(* a nil variable bag or with one that holds two variables, and the        *)
(* callers call ExecuteWorkflow with its id or its name, each from its own *)
(* goroutine, with variables of their own.                                 *)
(***************************************************************************)
SharedKeys == {"w1", "n1"}

SharedNext ==
    \/ RegisterWorkflow
    \/ \E c \in Callers :
          \/ \E k \in SharedKeys, v \in VarArgs : ExecuteWorkflow(c, k, v)
          \/ RunNext(c)
    \/ ConcurrentMapWrites

SharedSpec == VarInit /\ [][SharedNext]_vars

(***************************************************************************)
(* The specification of two definitions: a client registers a definition   *)
(* with the steps a and b and one with the steps x and y, and two          *)
(* goroutines call ExecuteWorkflow, the first for the one definition and   *)
(* the second for the other.                                               *)
(***************************************************************************)
DiffKinds ==
    {[Type |-> "task", OnError |-> ""], [Type |-> "bogus", OnError |-> ""],
     [Type |-> "bogus", OnError |-> "continue"]}

DiffStep(id, kind, deps) ==
    [ID |-> id, Type |-> kind.Type, Config |-> ConfigFor(kind.Type),
     OnError |-> kind.OnError, Dependencies |-> deps]

\* the steps a and b; b depends on nothing, on a, or on a step that is not there
DiffFirst ==
    {[ID |-> "w1", Name |-> "n1", Variables |-> NilVariables,
      Steps |-> <<DiffStep("a", ka, {}), DiffStep("b", kb, d)>>] :
        ka \in DiffKinds, kb \in {k \in DiffKinds : k.OnError = ""},
        d \in {{}, {"a"}, {"z"}}}

\* the step x, alone or followed by the step y that depends on it
DiffSecond ==
    {[ID |-> "w2", Name |-> "n2", Variables |-> NilVariables, Steps |-> st] :
        st \in {<<DiffStep("x", kx, {})>> : kx \in DiffKinds}
            \cup {<<DiffStep("x", kx, {}), DiffStep("y", ky, {"x"})>> :
                     kx \in {k \in DiffKinds : k.OnError = "continue"},
                     ky \in {k \in DiffKinds : k.Type = "task"}}}

DiffInit == InitWith({<<w1, w2>> : w1 \in DiffFirst, w2 \in DiffSecond})

\* the key each goroutine calls ExecuteWorkflow with
DiffKey == [c1 |-> "w1", c2 |-> "n2"]

DiffNext ==
    \/ RegisterWorkflow
    \/ \E c \in Callers :
          \/ \E v \in VariableArgs : pending = <<>> /\ ExecuteWorkflow(c, DiffKey[c], v)
          \/ RunNext(c)

DiffSpec == DiffInit /\ [][DiffNext]_vars

(***************************************************************************)
(* executeSteps as a function of the definition alone (lines 129-189): the *)
(* outcomes of the loop from the state (executedSteps, remainingSteps,     *)
(* StepStatus), over every order in which the range can reach the steps    *)
(* that can execute.                                                       *)
(***************************************************************************)
RECURSIVE executeSteps(_, _, _, _)
executeSteps(workflow, executedSteps, remainingSteps, StepStatus) ==
    LET ready == {id \in DOMAIN remainingSteps :
                    canExecute(workflow.Steps[remainingSteps[id]], executedSteps)}
        after(id, out) ==
            LET failed == out.err # NilError
                status == MapSet(StepStatus, id, IF failed THEN "failed" ELSE "completed")
            IN  IF failed /\ StopsOn(workflow.Steps[remainingSteps[id]].OnError)
                THEN {[StepStatus |-> status, err |-> out.err]}
                ELSE executeSteps(workflow, MarkExecuted(executedSteps, id, failed),
                                  Unqueue(remainingSteps, id), status)
    IN  IF DOMAIN remainingSteps = {}
        THEN {[StepStatus |-> StepStatus, err |-> NilError]}
        ELSE IF ready = {}
        THEN {[StepStatus |-> StepStatus, err |-> StuckError]}
        ELSE UNION {UNION {after(id, out) :
                              out \in executeStep(workflow.Steps[remainingSteps[id]])} :
                       id \in ready}

\* lines 112-118 after executeSteps: the Status, Error and StepStatus a run
\* of the definition can end with when no other call is made
RunsAlone(workflow) ==
    {LET e == Finalize([Status |-> "running", Error |-> NilError,
                        StepStatus |-> r.StepStatus], r.err)
     IN  <<e.Status, e.Error, e.StepStatus>> :
        r \in executeSteps(workflow, {}, InitialRemaining(workflow), EmptyMap)}

(***************************************************************************)
(* The lock specification.  The operations that take the engine's mutex    *)
(* for their whole body act when no goroutine holds it; executeStep is     *)
(* taken apart after its first critical section: the handler runs (lines   *)
(* 203-224), the mutex is locked (line 226), the result is stored and the  *)
(* mutex unlocked (lines 227-230).  A client registers a definition and,   *)
(* later, another one under the same id and name, and calls                *)
(* GetExecutionStatus and ListWorkflows while a run is inside executeStep. *)
(***************************************************************************)
\* the switch of lines 203-224 has a case for the step's type
Dispatches(step) ==
    step.Type \in {"task", "condition", loop, "parallel", "chat", "tool"}

\* lines 197-224: the handler runs and returns; the default branch returns
\* from executeStep at once
HandlerReturns(c) ==
    /\ pc[c] = "handler"
    /\ \E out \in executeStep(StepOf(c, loc[c].id)) :
          loc' = [loc EXCEPT ![c].out = out]
    /\ pc' = [pc EXCEPT ![c] = IF Dispatches(StepOf(c, loc[c].id)) THEN "lock" ELSE "record"]
    /\ UNCHANGED <<engine, now, pending, loop, ret, regErr, got, listed, par, mu, pm, ag>>

\* line 226: we.mu.Lock()
LockStore(c) ==
    /\ pc[c] = "lock"
    /\ mu = Unlocked
    /\ mu' = c
    /\ UNCHANGED <<pm, ag>>
    /\ pc' = [pc EXCEPT ![c] = "store"]
    /\ UNCHANGED <<engine, now, pending, loop, loc, ret, regErr, got, listed, par>>

\* lines 227-230: the result is stored when the handler returned no error,
\* and the mutex is unlocked
StoreResult(c) ==
    /\ pc[c] = "store"
    /\ mu = c
    /\ stepResults' =
          IF loc[c].out.err = NilError
          THEN [stepResults EXCEPT ![ExecutionIDOf(c)] =
                   MapSet(@, StepOf(c, loc[c].id).ID, loc[c].out.result)]
          ELSE stepResults
    /\ mu' = Unlocked
    /\ UNCHANGED <<pm, ag>>
    /\ pc' = [pc EXCEPT ![c] = "record"]
    /\ UNCHANGED <<workflows, executions, currentStep, wfHeap, exHeap,
                   now, pending, loop, loc, ret, regErr, got, listed, par>>

\* the operations whose body is one critical section of the mutex
LockedRegisterWorkflow == mu = Unlocked /\ RegisterWorkflow
LockedListWorkflows == mu = Unlocked /\ ListWorkflows
LockedGetExecutionStatus(executionID) == mu = Unlocked /\ GetExecutionStatus(executionID)
LockedExecuteWorkflow(c, workflowID, variables) ==
    mu = Unlocked /\ ExecuteWorkflow(c, workflowID, variables)
LockedRegisterExecution(c) == mu = Unlocked /\ RegisterExecution(c)
LockedScanStep(c) == mu = Unlocked /\ ScanStep(c)

\* the definitions of the lock specification: one step, which a handler
\* runs or whose type is unknown; the definition registered second has no
\* steps
LockDefinitions ==
    {[ID |-> "w1", Name |-> "n1", Variables |-> NilVariables,
      Steps |-> <<DiffStep("a", k, {})>>] : k \in {k \in DiffKinds : k.OnError = ""}}

LockInit ==
    InitWith({<<w, [ID |-> "w1", Name |-> "n1", Variables |-> NilVariables,
                    Steps |-> <<>>]>> : w \in LockDefinitions})

\* a run is inside executeStep, after its first critical section
InExecuteStep == \E c \in Callers : pc[c] \in {"handler", "lock", "store"}

\* the ids the client calls GetExecutionStatus with
LockExecutionIDs == {generateExecutionID(0), "ex_none"}

LockNext ==
    \/ LockedRegisterWorkflow
    \/ InExecuteStep /\ LockedListWorkflows
    \/ \E id \in LockExecutionIDs : InExecuteStep /\ LockedGetExecutionStatus(id)
    \/ \E c \in Callers :
          \/ \E v \in VariableArgs : LockedExecuteWorkflow(c, "w1", v)
          \/ CreateExecution(c)
          \/ InitVariables(c)
          \/ AssignVariables(c)
          \/ MergeVariable(c)
          \/ LockedRegisterExecution(c)
          \/ LockedScanStep(c)
          \/ HandlerReturns(c)
          \/ LockStore(c)
          \/ StoreResult(c)
          \/ RecordStep(c)
          \/ EndPass(c)
          \/ SetStatus(c)
          \/ SetEndTime(c)
    \/ ConcurrentMapWrites

LockSpec == LockInit /\ [][LockNext]_vars

\* a goroutine that holds the mutex goes on to its Unlock
LockFairSpec == LockSpec /\ \A c \in Callers : WF_vars(StoreResult(c))

(***************************************************************************)
(* The condition specification: the definitions have a condition step a,   *)
(* with every kind of "condition" entry in its Config, and a step b that   *)
(* depends on it or not.                                                   *)
(***************************************************************************)
\* the Config of a condition step: no "condition" key, an empty string, the
\* strings "false" and "x > 1", and a value that is not a string
CondConfigs ==
    {EmptyMap,
     [condition |-> [t |-> "string", v |-> ""]],
     [condition |-> [t |-> "string", v |-> "false"]],
     [condition |-> [t |-> "string", v |-> "x > 1"]],
     [condition |-> [t |-> "bool", v |-> "false"]]}

CondDefinitions ==
    {[ID |-> "w1", Name |-> "n1", Variables |-> NilVariables,
      Steps |-> <<[ID |-> "a", Type |-> "condition", Config |-> cfg,
                   OnError |-> p, Dependencies |-> {}],
                  DiffStep("b", kb, d)>>] :
        cfg \in CondConfigs, p \in {"", "continue"},
        kb \in {k \in DiffKinds : k.OnError = ""}, d \in {{}, {"a"}}}

CondInit == InitWith({<<w>> : w \in CondDefinitions})

CondSpec == CondInit /\ [][Next]_vars

(***************************************************************************)
(* The loop specification: the definitions have one step of type loop,     *)
(* with every kind of "iterations" entry in its Config.                    *)
(***************************************************************************)
\* the Config of a loop step: no "iterations" key, the float64 values 0, -1,
\* 3 and 2.5 (in halves), the int 3, and nil
LoopConfigs ==
    {EmptyMap,
     [iterations |-> [t |-> "float64", v |-> 0]],
     [iterations |-> [t |-> "float64", v |-> -2]],
     [iterations |-> [t |-> "float64", v |-> 6]],
     [iterations |-> [t |-> "float64", v |-> 5]],
     [iterations |-> [t |-> "int", v |-> 3]],
     [iterations |-> [t |-> "nil", v |-> 0]]}

LoopDefinitions ==
    {[ID |-> "w1", Name |-> "n1", Variables |-> NilVariables,
      Steps |-> <<[ID |-> "a", Type |-> "loop", Config |-> cfg,
                   OnError |-> p, Dependencies |-> {}]>>] :
        cfg \in LoopConfigs, p \in {"", "continue"}}

LoopInit == InitWith({<<w>> : w \in LoopDefinitions})

LoopSpec == LoopInit /\ [][Next]_vars

(***************************************************************************)
(* The PluginManager (src/internal/agent/agent.go, lines 532-696).  pm.mu  *)
(* is a sync.RWMutex, which is not reentrant: Lock blocks while any        *)
(* goroutine, the caller included, holds it.  The operations whose body    *)
(* is one critical section act when no goroutine holds the mutex;          *)
(* ScanPlugins and LoadPlugin are taken apart at their Lock calls.  A file *)
(* of a directory listing is its name without the extension, the           *)
(* extension filepath.Ext returns, and whether it is a directory.          *)
(***************************************************************************)
\* the variables of the workflow engine
workflowVars ==
    <<workflows, executions, currentStep, stepResults, wfHeap, exHeap,
      now, pending, loop, pc, loc, ret, regErr, got, listed, par, mu>>

\* a directory listing has at most MaxFiles entries
MaxFiles == 2

\* the entries of a listing: the plugin file a.so, the file b.txt, and the
\* directory d.so
DirEntries ==
    {[base |-> "a", ext |-> ".so", isDir |-> FALSE],
     [base |-> "b", ext |-> ".txt", isDir |-> FALSE],
     [base |-> "d", ext |-> ".so", isDir |-> TRUE]}

\* what ioutil.ReadDir returns: the listings without an error
Listings == UNION {[1..n -> DirEntries] : n \in 0..MaxFiles}

\* the names LoadPlugin and ExecutePlugin are called with
PluginNames == {"a", "p"}

\* where LoadPlugin returns: at plugin.Open, at Lookup, at the type
\* assertion, at Initialize, or at its end
LoadOutcomes ==
    {"failed to load plugin", "failed to find Plugin symbol",
     "unexpected type from module symbol", "failed to initialize plugin", NilError}

\* ScanPlugins, lines 650-656: the mutex is locked and the directory is
\* read; when ReadDir fails the call returns the error, and the deferred
\* Unlock runs
ScanPlugins ==
    /\ pm.pc["scanner"] = "idle"
    /\ pm.mu = Unlocked
    /\ \/ pm' = [pm EXCEPT !.pc["scanner"] = "returned",
                           !.ret["scanner"] = <<"error", "failed to scan plugins directory">>]
       \/ \E files \in Listings :
             pm' = [pm EXCEPT !.mu = "scanner", !.files = files, !.pc["scanner"] = "range"]
    /\ UNCHANGED <<workflowVars, ag>>

\* lines 658-669: the next file of the range; a directory and a file whose
\* extension is not .so are passed over, and for a .so file LoadPlugin is
\* called with the name without its last three characters
ScanFile ==
    /\ pm.pc["scanner"] = "range"
    /\ pm.files # <<>>
    /\ LET file == Head(pm.files)
       IN  IF file.isDir \/ file.ext # ".so"
           THEN pm' = [pm EXCEPT !.files = Tail(pm.files)]
           ELSE pm' = [pm EXCEPT !.pluginName["scanner"] = file.base,
                                 !.pc["scanner"] = "load"]
    /\ UNCHANGED <<workflowVars, ag>>

\* line 677 and the deferred Unlock of line 651: the range is over
ScanReturn ==
    /\ pm.pc["scanner"] = "range"
    /\ pm.files = <<>>
    /\ pm' = [pm EXCEPT !.mu = Unlocked, !.pc["scanner"] = "returned",
                        !.ret["scanner"] = <<"nil">>]
    /\ UNCHANGED <<workflowVars, ag>>

\* the client calls LoadPlugin
CallLoadPlugin ==
    /\ pm.pc["client"] = "idle"
    /\ \E name \in PluginNames :
          pm' = [pm EXCEPT !.pluginName["client"] = name, !.pc["client"] = "load"]
    /\ UNCHANGED <<workflowVars, ag>>

\* LoadPlugin, line 550: pm.mu.Lock()
LoadLock(g) ==
    /\ pm.pc[g] = "load"
    /\ pm.mu = Unlocked
    /\ pm' = [pm EXCEPT !.mu = g, !.pc[g] = "open"]
    /\ UNCHANGED <<workflowVars, ag>>

\* LoadPlugin, lines 551-582: the plugin is opened, looked up, initialized
\* and registered, or an error is returned; the deferred Unlock runs.
\* ScanPlugins logs the error and goes on with the range (lines 672-675).
LoadBody(g) ==
    /\ pm.pc[g] = "open"
    /\ pm.mu = g
    /\ \E err \in LoadOutcomes :
          pm' = [pm EXCEPT
                   !.mu = Unlocked,
                   !.plugins = IF err = NilError THEN @ \cup {pm.pluginName[g]} ELSE @,
                   !.files = IF g = "scanner" THEN Tail(@) ELSE @,
                   !.pc[g] = IF g = "scanner" THEN "range" ELSE "idle",
                   !.ret[g] = IF g = "scanner" THEN @
                              ELSE IF err = NilError THEN <<"nil">> ELSE <<"error", err>>]
    /\ UNCHANGED <<workflowVars, ag>>

\* ExecutePlugin, lines 607-617: the lookup under RLock, and the plugin's
\* Execute
ExecutePlugin ==
    /\ pm.pc["client"] = "idle"
    /\ pm.mu = Unlocked
    /\ \E name \in PluginNames :
          pm' = [pm EXCEPT !.ret["client"] =
                    IF name \in pm.plugins THEN <<"executed", name>>
                    ELSE <<"error", "plugin not found: " \o name>>]
    /\ UNCHANGED <<workflowVars, ag>>

\* ListPlugins, lines 620-629: the names of the loaded plugins
ListPlugins ==
    /\ pm.pc["client"] = "idle"
    /\ pm.mu = Unlocked
    /\ pm' = [pm EXCEPT !.ret["client"] =
                 <<"names">> \o (IF "a" \in pm.plugins THEN <<"a">> ELSE <<>>)
                             \o (IF "p" \in pm.plugins THEN <<"p">> ELSE <<>>)]
    /\ UNCHANGED <<workflowVars, ag>>

\* Shutdown, lines 681-696: every plugin is shut down and removed
Shutdown ==
    /\ pm.pc["client"] = "idle"
    /\ pm.mu = Unlocked
    /\ pm' = [pm EXCEPT !.plugins = {}, !.ret["client"] = <<"nil">>]
    /\ UNCHANGED <<workflowVars, ag>>

PluginInit == InitWith({<<>>})

PluginNext ==
    \/ ScanPlugins
    \/ ScanFile
    \/ ScanReturn
    \/ CallLoadPlugin
    \/ \E g \in Goroutines : LoadLock(g) \/ LoadBody(g)
    \/ ExecutePlugin
    \/ ListPlugins
    \/ Shutdown

PluginSpec == PluginInit /\ [][PluginNext]_vars

\* a goroutine that can take a step takes one
PluginFairSpec == PluginSpec /\ WF_vars(PluginNext)

(***************************************************************************)
(* The tool-call path of the Agent (src/internal/agent/agent.go, lines     *)
(* 186-293 and 1076-1116).  A reply of the AI provider is given by what    *)
(* the code looks at: whether it starts with "TOOL:", the name that        *)
(* follows ("" when none does), and its ARGS part: none, the empty object  *)
(* {}, the object {"expression":"1+1"}, text in braces that is no JSON,    *)
(* or an object with a value that is no string.                            *)
(***************************************************************************)
\* ProcessMessage is called at most MaxCalls times
MaxCalls == 3

Replies ==
    {[tool |-> FALSE, name |-> "", args |-> "none"]}
      \cup [tool : {TRUE}, name : {"", "calculator", "nosuch"},
            args : {"none", "empty", "object", "malformed", "nonstring"}]

\* the text of the ARGS part in braces
ArgsText(response) ==
    CASE response.args = "empty" -> "{}"
      [] response.args = "object" -> "{\"expression\":\"1+1\"}"
      [] response.args = "malformed" -> "{expression: 1+}"
      [] response.args = "nonstring" -> "{\"expression\":2}"
      [] OTHER -> ""

\* FindStringSubmatch of `^TOOL:\s*(\S+)` (lines 266-267): the match and
\* its one group.  \s* runs over the line break, so that without a name the
\* group is the "ARGS:" of the next line; nil when nothing follows "TOOL:".
reTool(response) ==
    IF ~response.tool THEN <<>>
    ELSE IF response.name # "" THEN <<"TOOL: " \o response.name, response.name>>
    ELSE IF response.args # "none" THEN <<"TOOL:\nARGS:", "ARGS:">>
    ELSE <<>>

\* FindStringSubmatch of `ARGS:\s*(\{.+\})` (lines 275-276): the match and
\* its one group; nil without an ARGS part and for {}, which has no
\* character between its braces
reArgs(response) ==
    IF response.args \in {"none", "empty"} THEN <<>>
    ELSE <<"ARGS: " \o ArgsText(response), ArgsText(response)>>

\* json.Unmarshal into a map[string]string (lines 283-287)
Unmarshal(argsJSON) ==
    IF argsJSON = "{\"expression\":\"1+1\"}"
    THEN [args |-> [expression |-> "1+1"], err |-> NilError]
    ELSE [args |-> EmptyMap, err |-> "failed to parse args"]

\* parseToolCall, lines 264-293.  A Go slice of length n has the indices
\* 0..n-1, here the positions 1..n: matches[k] is the position k + 1, and
\* an index that is out of range panics.
parseToolCall(response) ==
    LET no == [Name |-> "", Args |-> EmptyMap]
        tool == reTool(response)
        args == reArgs(response)
    IN  IF Len(tool) < 2
        THEN [call |-> no, err |-> "invalid tool call format", panic |-> NilError]
        ELSE IF Len(args) < 2
        THEN [call |-> no, err |-> "invalid args format", panic |-> NilError]
        ELSE IF 2 + 1 > Len(args)
        THEN [call |-> no, err |-> NilError,
              panic |-> "index out of range [2] with length " \o ToString(Len(args))]
        ELSE LET u == Unmarshal(args[2 + 1])
             IN  IF u.err # NilError
                 THEN [call |-> no, err |-> u.err, panic |-> NilError]
                 ELSE [call |-> [Name |-> tool[1 + 1], Args |-> u.args],
                       err |-> NilError, panic |-> NilError]

\* the tools of the registry: the calculator (lines 1064-1074)
ToolNames == {"calculator"}

\* ToolRegistry.Execute, lines 1101-1116, with the calculator's Execute
ToolExecute(name, args) ==
    IF name \notin ToolNames
    THEN [result |-> "", err |-> "tool not found: " \o name]
    ELSE IF "expression" \notin DOMAIN args \/ args["expression"] = ""
    THEN [result |-> "", err |-> "expression required"]
    ELSE [result |-> "Result: (calculation of " \o args["expression"] \o ")",
          err |-> NilError]

\* handleToolCall, lines 241-261: the agent after the call; stored tells
\* whether memory.AddMessage stored the tool result or failed, which is
\* only logged
handleToolCall(a, response, stored) ==
    LET parsed == parseToolCall(response)
        done == ToolExecute(parsed.call.Name, parsed.call.Args)
    IN  IF parsed.panic # NilError
        THEN [a EXCEPT !.panic = parsed.panic, !.result = "", !.err = NilError]
        ELSE IF parsed.err # NilError
        THEN [a EXCEPT !.result = "", !.err = parsed.err]
        ELSE IF done.err # NilError
        THEN [a EXCEPT !.executed = Append(@, parsed.call), !.result = "", !.err = done.err]
        ELSE [a EXCEPT !.executed = Append(@, parsed.call),
                       !.messages = IF stored
                                    THEN Append(@, <<"assistant",
                                        "[Tool: " \o parsed.call.Name \o "] " \o done.result>>)
                                    ELSE @,
                       !.result = done.result, !.err = NilError]

\* ProcessMessage, lines 186-238: the user message is stored, or the store
\* fails; the session is read, or the read fails; the provider is asked and
\* fails or replies; a reply that starts with "TOOL:" goes to
\* handleToolCall, any other is stored (a failure is only logged) and
\* returned
ProcessMessage ==
    /\ ag.calls < MaxCalls
    /\ ag.panic = NilError
    /\ \E userMessage \in {"hi", "what is 1+1"} :
          LET a == [ag EXCEPT !.calls = @ + 1,
                              !.messages = Append(@, <<"user", userMessage>>)]
          IN  \/ ag' = [ag EXCEPT !.calls = @ + 1, !.result = "",
                                  !.err = "failed to insert message"]
              \/ \E err \in {"failed to query messages", "provider error"} :
                    ag' = [a EXCEPT !.result = "", !.err = err]
              \/ \E response \in Replies, stored \in BOOLEAN :
                    ag' = IF response.tool
                          THEN handleToolCall([a EXCEPT !.response = response],
                                              response, stored)
                          ELSE [a EXCEPT !.response = response,
                                         !.messages = IF stored
                                                      THEN Append(@, <<"assistant", "hello">>)
                                                      ELSE @,
                                         !.result = "hello", !.err = NilError]
    /\ UNCHANGED <<workflowVars, pm>>

AgentInit == InitWith({<<>>})

AgentSpec == AgentInit /\ [][ProcessMessage]_vars

(***************************************************************************)
(* What the claims speak of.                                               *)
(***************************************************************************)
\* the step ids of a definition
StepIdsOf(w) == {w.Steps[i].ID : i \in DOMAIN w.Steps}

\* the step of a definition that executeSteps runs under the id `id`
StepById(w, id) == w.Steps[InitialRemaining(w)[id]]

\* caller c's run has its record
HasExecution(c) == loc[c].execution # NilPtr

\* caller c's call returned a record
ReturnedRecord(c) == pc[c] = "returned" /\ ret[c].execution # NilPtr

\* the error executeStep returns for a step of a type its switch does not know
UnknownStepType(step) == "unknown step type: " \o step.Type

(***************************************************************************)
(* C1.  A step's handler is dispatched only when every id listed in its    *)
(* Dependencies is in the run's executed set, and so has been processed    *)
(* (has its StepStatus) in the same run, whatever the order of the scan.   *)
(***************************************************************************)
C1_DependenciesFirst ==
    \A c \in Callers :
        pc[c] \in {"handler", "record"} =>
            \A dep \in StepOf(c, loc[c].id).Dependencies :
                /\ dep \in loc[c].executedSteps
                /\ dep \in DOMAIN ExecutionOf(c).StepStatus

\* a step with two dependencies is in its handler
C1_Witness ==
    \E c \in Callers :
        /\ pc[c] = "handler"
        /\ Cardinality(StepOf(c, loc[c].id).Dependencies) = 2

(***************************************************************************)
(* The dependency graph of a definition.                                   *)
(***************************************************************************)
\* no two steps of the definition share an id
UniqueIDs(w) ==
    \A i, j \in DOMAIN w.Steps : w.Steps[i].ID = w.Steps[j].ID => i = j

\* the ids the steps with the id `id` list as dependencies
DepsOf(w, id) ==
    UNION {w.Steps[i].Dependencies : i \in {j \in DOMAIN w.Steps : w.Steps[j].ID = id}}

\* every dependency names a step of the definition
DepsExist(w) == \A id \in StepIdsOf(w) : DepsOf(w, id) \subseteq StepIdsOf(w)

\* the ids reached from id along one to n dependency edges
RECURSIVE DependsWithin(_, _, _)
DependsWithin(w, id, n) ==
    IF n = 0 THEN {}
    ELSE DepsOf(w, id) \cup
         UNION {DependsWithin(w, x, n - 1) : x \in DepsOf(w, id) \cap StepIdsOf(w)}

\* the direct and transitive dependencies of id
TransitiveDeps(w, id) == DependsWithin(w, id, Cardinality(StepIdsOf(w)))

\* the steps that depend on id, directly or transitively
Dependents(w, id) == {d \in StepIdsOf(w) : id \in TransitiveDeps(w, d)}

\* no step depends on itself, directly or transitively
Acyclic(w) == \A id \in StepIdsOf(w) : id \notin TransitiveDeps(w, id)

\* the step id of caller c's run failed under the stop or the unset policy
StopFailed(c, id) ==
    /\ id \in DOMAIN ExecutionOf(c).StepStatus
    /\ ExecutionOf(c).StepStatus[id] = "failed"
    /\ StepById(WorkflowOf(c), id).OnError \in {"stop", ""}

\* the step id of caller c's run failed under the continue policy
ContinueFailed(c, id) ==
    /\ id \in DOMAIN ExecutionOf(c).StepStatus
    /\ ExecutionOf(c).StepStatus[id] = "failed"
    /\ StepById(WorkflowOf(c), id).OnError = "continue"

\* caller c's run ended with the error of its step id, failed under the stop
\* or the unset policy
HaltedAt(c, id) ==
    /\ StopFailed(c, id)
    /\ loc[c].id = id
    /\ ExecutionOf(c).Status = "failed"
    /\ ExecutionOf(c).Error = loc[c].out.err

(***************************************************************************)
(* C2.  For a definition with unique step ids, no dependency cycle and     *)
(* only dependencies that name its steps, ExecuteWorkflow terminates, and  *)
(* either every step ends with StepStatus completed or failed, or the run  *)
(* halted at its first failure under the stop policy and the steps not     *)
(* executed by then have no StepStatus.                                    *)
(***************************************************************************)
C2_WellFormed(w) == UniqueIDs(w) /\ DepsExist(w) /\ Acyclic(w)

C2_Final(c) ==
    LET w == WorkflowOf(c)
        r == ExecutionOf(c)
    IN  \/ \A id \in StepIdsOf(w) :
              /\ id \in DOMAIN r.StepStatus
              /\ r.StepStatus[id] \in {"completed", "failed"}
        \/ \E f \in StepIdsOf(w) :
              /\ HaltedAt(c, f)
              /\ \A g \in StepIdsOf(w) \ {f} : ~StopFailed(c, g)
              /\ \A id \in StepIdsOf(w) \ (loc[c].executedSteps \cup {f}) :
                    id \notin DOMAIN r.StepStatus

C2_AcyclicTerminates ==
    /\ \A c \in Callers :
          (pc[c] = "create" /\ C2_WellFormed(WorkflowOf(c))) ~> (pc[c] = "returned")
    /\ [](\A c \in Callers :
             (ReturnedRecord(c) /\ C2_WellFormed(WorkflowOf(c))) => C2_Final(c))

\* a run of three steps without cycle halted with a step left unrecorded
C2_Witness ==
    \E c \in Callers :
        /\ ReturnedRecord(c)
        /\ C2_WellFormed(WorkflowOf(c))
        /\ Cardinality(StepIdsOf(WorkflowOf(c))) = 3
        /\ loc[c].executedSteps # {}
        /\ \E f \in StepIdsOf(WorkflowOf(c)) : HaltedAt(c, f)
        /\ \E id \in StepIdsOf(WorkflowOf(c)) : id \notin DOMAIN ExecutionOf(c).StepStatus

(***************************************************************************)
(* C3.  As claimed: for a definition whose dependency graph has a cycle    *)
(* (a step that depends on itself included) or a dependency that names no  *)
(* step, the run ends with the workflow-stuck error as its terminal error. *)
(***************************************************************************)
C3_CyclicOrUnmet(w) == ~Acyclic(w) \/ ~DepsExist(w)

C3_AlwaysStuck ==
    \A c \in Callers :
        (ReturnedRecord(c) /\ C3_CyclicOrUnmet(WorkflowOf(c))) =>
            /\ ExecutionOf(c).Status = "failed"
            /\ ExecutionOf(c).Error = StuckError

(***************************************************************************)
(* C3, amended.  For such a definition ExecuteWorkflow terminates and the  *)
(* run ends failed; its terminal error is the workflow-stuck error, unless *)
(* a step failed under the stop (or unset) policy first, and then it is    *)
(* that step's error.                                                      *)
(***************************************************************************)
C3_StuckOrHalted ==
    /\ \A c \in Callers :
          (pc[c] = "create" /\ C3_CyclicOrUnmet(WorkflowOf(c))) ~> (pc[c] = "returned")
    /\ [](\A c \in Callers :
             (ReturnedRecord(c) /\ C3_CyclicOrUnmet(WorkflowOf(c))) =>
                /\ ExecutionOf(c).Status = "failed"
                /\ \/ /\ ExecutionOf(c).Error = StuckError
                      /\ \A f \in StepIdsOf(WorkflowOf(c)) : ~StopFailed(c, f)
                   \/ \E f \in StepIdsOf(WorkflowOf(c)) : HaltedAt(c, f))

\* a run got stuck on a cycle after it had completed a step
C3_Witness ==
    \E c \in Callers :
        /\ ReturnedRecord(c)
        /\ ~Acyclic(WorkflowOf(c))
        /\ ExecutionOf(c).Error = StuckError
        /\ \E id \in DOMAIN ExecutionOf(c).StepStatus :
              ExecutionOf(c).StepStatus[id] = "completed"

(***************************************************************************)
(* C4.  When a step fails and its OnError is "stop" or unset, the run ends *)
(* at once: the run is past its last dispatch (the failed step is the last *)
(* one dispatched), the failed step is not in the executed set, no step    *)
(* that depends on it, directly or transitively, is executed or has a      *)
(* StepStatus, and the run's Status is failed with the failing handler's   *)
(* error as its Error.                                                     *)
(***************************************************************************)
C4_StopEndsRun ==
    \A c \in Callers :
        HasExecution(c) =>
            \A f \in StepIdsOf(WorkflowOf(c)) :
                StopFailed(c, f) =>
                    /\ pc[c] \in {"status", "endtime", "returned"}
                    /\ loc[c].id = f
                    /\ currentStep[ExecutionIDOf(c)] =
                          <<loc[c].workflow, InitialRemaining(WorkflowOf(c))[f]>>
                    /\ f \notin loc[c].executedSteps
                    /\ \A d \in Dependents(WorkflowOf(c), f) :
                          /\ d \notin loc[c].executedSteps
                          /\ d \notin DOMAIN ExecutionOf(c).StepStatus \/ d = f
                    /\ loc[c].err = loc[c].out.err
                    /\ pc[c] \in {"endtime", "returned"} =>
                          /\ ExecutionOf(c).Status = "failed"
                          /\ ExecutionOf(c).Error = loc[c].out.err
                          /\ ExecutionOf(c).Error = UnknownStepType(StepById(WorkflowOf(c), f))

\* a run returned after a step with the unset policy failed, a step that
\* depends on it being left
C4_Witness ==
    \E c \in Callers :
        /\ ReturnedRecord(c)
        /\ \E f \in StepIdsOf(WorkflowOf(c)) :
              /\ StopFailed(c, f)
              /\ StepById(WorkflowOf(c), f).OnError = ""
              /\ loc[c].executedSteps # {}
              /\ Dependents(WorkflowOf(c), f) \ {f} # {}

(***************************************************************************)
(* C5.  As claimed: when step A fails under "continue", A is moved to the  *)
(* executed set and a step B whose only dependency is A is dispatched in   *)
(* the same run: by the time the call returns, B has its StepStatus.       *)
(***************************************************************************)
C5_OnlyDependsOn(w, b, a) == b # a /\ StepById(w, b).Dependencies = {a}

C5_Dispatched(c, b) ==
    \/ b \in DOMAIN ExecutionOf(c).StepStatus
    \/ pc[c] \in {"handler", "record"} /\ loc[c].id = b

C5_DependentRuns ==
    \A c \in Callers :
        ReturnedRecord(c) =>
            \A a, b \in StepIdsOf(WorkflowOf(c)) :
                (ContinueFailed(c, a) /\ C5_OnlyDependsOn(WorkflowOf(c), b, a)) =>
                    /\ a \in loc[c].executedSteps
                    /\ b \in DOMAIN ExecutionOf(c).StepStatus

(***************************************************************************)
(* C5, amended.  When step A fails under "continue", A is moved to the     *)
(* executed set, and a step B whose only dependency is A is eventually     *)
(* dispatched in the same run, unless the run halts first at the failure   *)
(* of another step under the stop (or unset) policy.                       *)
(***************************************************************************)
\* the run of caller c owes a dispatch: some A failed under continue, some B
\* depends on A only and has not been dispatched, and no other step failed
\* under the stop policy.  A dispatch and a failure under stop stay.
C5_Owed(c) ==
    /\ HasExecution(c)
    /\ \E a, b \in StepIdsOf(WorkflowOf(c)) :
          /\ ContinueFailed(c, a)
          /\ C5_OnlyDependsOn(WorkflowOf(c), b, a)
          /\ ~C5_Dispatched(c, b)
          /\ \A f \in StepIdsOf(WorkflowOf(c)) \ {a, b} : ~StopFailed(c, f)

C5_DependentRunsUnlessHalted ==
    /\ [](\A c \in Callers : HasExecution(c) =>
             \A a \in StepIdsOf(WorkflowOf(c)) :
                ContinueFailed(c, a) => a \in loc[c].executedSteps)
    /\ \A c \in Callers : C5_Owed(c) ~> ~C5_Owed(c)

\* a step is in its handler, the only step it depends on having failed under
\* continue in an earlier pass
C5_Witness ==
    \E c \in Callers :
        /\ pc[c] = "handler"
        /\ \E a \in StepIdsOf(WorkflowOf(c)) :
              /\ ContinueFailed(c, a)
              /\ C5_OnlyDependsOn(WorkflowOf(c), loc[c].id, a)

(***************************************************************************)
(* C6.  ExecuteWorkflow returns a call-level error only when the key is    *)
(* not in the registry: a call that returns an error returns it from the   *)
(* lookup, for a key the registry does not hold, with a nil record; every  *)
(* other return is that of a registered definition's run, a non-nil record *)
(* and a nil error, and when the run failed the failure is in the record's *)
(* Status = failed and Error only.                                         *)
(***************************************************************************)
C6_Return(c) ==
    (pc[c] # "returned" /\ pc'[c] = "returned") =>
        IF pc[c] = "idle"
        THEN /\ ret'[c].execution = NilPtr
             /\ \E k \in Keys :
                   /\ k \notin DOMAIN workflows
                   /\ ret'[c].err = "workflow not found: " \o k
        ELSE /\ \E k \in DOMAIN workflows : workflows[k] = loc[c].workflow
             /\ ret'[c].err = NilError
             /\ ret'[c].execution # NilPtr
             /\ ret'[c].execution = loc[c].execution
             /\ exHeap'[ret'[c].execution].Status =
                   IF loc[c].err # NilError THEN "failed" ELSE "completed"
             /\ exHeap'[ret'[c].execution].Error = loc[c].err

C6_CallLevelError == [][\A c \in Callers : C6_Return(c)]_vars

\* a call returned the record of a run that failed, and no error
C6_Witness ==
    \E c \in Callers :
        /\ ReturnedRecord(c)
        /\ ret[c].err = NilError
        /\ ExecutionOf(c).Status = "failed"
        /\ ExecutionOf(c).Error = StuckError

(***************************************************************************)
(* C7.  ExecuteWorkflow with a key that is not in the registry returns a   *)
(* nil record and the not-found error and leaves the engine as it was: no  *)
(* execution is created or registered, no step is dispatched, no variable  *)
(* bag is modified.                                                        *)
(***************************************************************************)
C7_NotFound(c) ==
    (pc[c] = "idle" /\ pc'[c] # "idle" /\ loc'[c].workflow = NilPtr) =>
        /\ pc'[c] = "returned"
        /\ ret'[c].execution = NilPtr
        /\ ret'[c].err # NilError
        /\ loc'[c].execution = NilPtr
        /\ UNCHANGED <<workflows, executions, currentStep, stepResults, wfHeap, exHeap>>

C7_NotFoundLeavesEngine == [][\A c \in Callers : C7_NotFound(c)]_vars

\* a call with an unknown key returned while a definition was registered
C7_Witness ==
    \E c \in Callers :
        /\ pc[c] = "returned"
        /\ ret[c].err = "workflow not found: nokey"
        /\ DOMAIN workflows = {"w1", "n1"}

(***************************************************************************)
(* C8.  Whenever ExecuteWorkflow returns a record, the record's Status is  *)
(* completed or failed, its EndTime is set and not earlier than its        *)
(* StartTime, and its Error is non-nil exactly when its Status is failed.  *)
(***************************************************************************)
C8_ReturnedRecordIsFinal ==
    \A c \in Callers :
        ReturnedRecord(c) =>
            LET r == exHeap[ret[c].execution]
            IN  /\ r.Status \in {"completed", "failed"}
                /\ r.EndTime # ZeroTime
                /\ r.EndTime >= r.StartTime
                /\ (r.Error # NilError) <=> (r.Status = "failed")

\* a call returned a failed record that ended after it started
C8_Witness ==
    \E c \in Callers :
        /\ ReturnedRecord(c)
        /\ exHeap[ret[c].execution].Status = "failed"
        /\ exHeap[ret[c].execution].EndTime > exHeap[ret[c].execution].StartTime

(***************************************************************************)
(* C9.  As claimed: a run's Status becomes failed, with its Error, in two  *)
(* situations only: a step of a type other than task, condition, loop,     *)
(* parallel, chat and tool was dispatched under the stop (or unset)        *)
(* policy, or a pass found no runnable step; and no step of one of the six *)
(* types fails.                                                            *)
(***************************************************************************)
C9_OnlyTwoFailures ==
    \A c \in Callers :
        ReturnedRecord(c) =>
            LET w == WorkflowOf(c)
                r == ExecutionOf(c)
            IN  /\ r.Status = "failed" =>
                      \/ r.Error = StuckError
                      \/ \E f \in StepIdsOf(w) :
                            /\ StepById(w, f).Type \notin RecognisedTypes
                            /\ HaltedAt(c, f)
                            /\ r.Error = UnknownStepType(StepById(w, f))
                /\ \A id \in DOMAIN r.StepStatus :
                      StepById(w, id).Type \in RecognisedTypes => r.StepStatus[id] = "completed"

(***************************************************************************)
(* C10.  As claimed: in the record ExecuteWorkflow returns, Outputs holds, *)
(* for every step whose StepStatus is completed, the handler's result      *)
(* under the step's id.                                                    *)
(***************************************************************************)
C10_OutputsRecorded ==
    \A c \in Callers :
        ReturnedRecord(c) =>
            LET r == exHeap[ret[c].execution]
            IN  \A id \in DOMAIN r.StepStatus :
                    r.StepStatus[id] = "completed" =>
                        /\ id \in DOMAIN r.Outputs
                        /\ r.Outputs[id] = stepResults[r.ExecutionID][id]

(***************************************************************************)
(* C11.  Every step failure is recorded whatever the error policy: when    *)
(* the handler of a dispatched step has returned, the step's StepStatus    *)
(* becomes failed if it returned an error, under the stop policy too, and  *)
(* completed only if it returned none; a StepStatus entry appears only     *)
(* that way and is never changed afterwards, so it holds when the run ends.*)
(***************************************************************************)
C11_FailureRecorded ==
    [][\A c \in Callers :
          HasExecution(c) =>
              LET old == exHeap[loc[c].execution].StepStatus
                  new == exHeap'[loc[c].execution].StepStatus
              IN  /\ (pc[c] = "record" /\ pc'[c] # "record") =>
                        /\ loc[c].id \in DOMAIN new
                        /\ new[loc[c].id] =
                              IF loc[c].out.err # NilError THEN "failed" ELSE "completed"
                  /\ \A id \in DOMAIN old : id \in DOMAIN new /\ new[id] = old[id]
                  /\ \A id \in (DOMAIN new) \ (DOMAIN old) :
                        pc[c] = "record" /\ id = loc[c].id]_vars

\* a run ended with two failures recorded: one under continue, and the one
\* under the stop policy that ended it
C11_Witness ==
    \E c \in Callers :
        /\ ReturnedRecord(c)
        /\ \E a, b \in StepIdsOf(WorkflowOf(c)) :
              /\ ContinueFailed(c, a)
              /\ StopFailed(c, b)
              /\ HaltedAt(c, b)

(***************************************************************************)
(* C12.  As claimed: once an observer holding the record it got from       *)
(* GetExecutionStatus can see Status completed or failed in it, no field   *)
(* of the record (Status, Error, EndTime, StepStatus, Outputs) changes.    *)
(***************************************************************************)
C12_TerminalImmutable ==
    [][(/\ got.execution # NilPtr
        /\ exHeap[got.execution].Status \in {"completed", "failed"})
          => exHeap'[got.execution] = exHeap[got.execution]]_vars

\* the caller c's record is in the registries (line 107 was passed)
Registered(c) ==
    /\ HasExecution(c)
    /\ pc[c] \in {"scan", "handler", "record", "status", "endtime", "returned"}

(***************************************************************************)
(* C13.  As claimed: any two ExecuteWorkflow calls on a registered         *)
(* workflow, concurrent ones that read the clock at the same instant       *)
(* included, have different ExecutionIDs, and the entry of each call in    *)
(* the execution registry is its own record: none is overwritten.          *)
(***************************************************************************)
C13_UniqueExecutionIDs ==
    /\ \A c, d \in Callers :
          (c # d /\ HasExecution(c) /\ HasExecution(d)) =>
              ExecutionIDOf(c) # ExecutionIDOf(d)
    /\ \A c \in Callers :
          Registered(c) =>
              /\ ExecutionIDOf(c) \in DOMAIN executions
              /\ executions[ExecutionIDOf(c)] = loc[c].execution

(***************************************************************************)
(* C14.  As claimed: GetExecutionStatus(id) returns, for the id of a call  *)
(* of ExecuteWorkflow that has returned its record, that record and no     *)
(* error; for an id no call was given, no record and the not-found error;  *)
(* and it leaves the registries and every record as they were.             *)
(***************************************************************************)
C14_ReadOnlyLookup ==
    [][\A id \in ExecutionIDs :
          GetExecutionStatus(id) =>
              /\ \A c \in Callers :
                    (ReturnedRecord(c) /\ ExecutionIDOf(c) = id) =>
                        got' = [id |-> id, execution |-> ret[c].execution, err |-> NilError]
              /\ (\A c \in Callers : HasExecution(c) => ExecutionIDOf(c) # id) =>
                    got' = [id |-> id, execution |-> NilPtr,
                            err |-> "execution not found: " \o id]
              /\ UNCHANGED engine]_vars

(***************************************************************************)
(* The registry.                                                           *)
(***************************************************************************)
\* the keys RegisterWorkflow stored the definition at p under
KeysOf(p) == {wfHeap[p].ID, wfHeap[p].Name}

\* no registration after the one of the definition at p used one of its keys
Kept(p) == \A q \in DOMAIN wfHeap : q > p => KeysOf(q) \cap KeysOf(p) = {}

\* the definitions of a result of ListWorkflows
ListedSet(l) == {l[i] : i \in DOMAIN l}

(***************************************************************************)
(* C15.  Register/list round trip: after RegisterWorkflow(w), as long as   *)
(* no further registration uses w's id or name as a key, every result of   *)
(* ListWorkflows includes w, and so a definition with w's id, name and     *)
(* number of steps.                                                        *)
(***************************************************************************)
C15_RegisterListRoundTrip ==
    [][ListWorkflows =>
          \A p \in DOMAIN wfHeap :
              Kept(p) =>
                  \E i \in DOMAIN listed' :
                      /\ listed'[i] = p
                      /\ wfHeap[listed'[i]].ID = wfHeap[p].ID
                      /\ wfHeap[listed'[i]].Name = wfHeap[p].Name
                      /\ Len(wfHeap[listed'[i]].Steps) = Len(wfHeap[p].Steps)]_vars

\* two definitions with different numbers of steps and no common key were
\* registered, and ListWorkflows returned both
C15_Witness ==
    /\ Len(wfHeap) = 2
    /\ Kept(1)
    /\ Len(wfHeap[1].Steps) # Len(wfHeap[2].Steps)
    /\ ListedSet(listed) = {1, 2}

(***************************************************************************)
(* C16.  RegisterWorkflow(w) gives w a non-empty id when it has none and   *)
(* keeps the id it has, and stores w under its id and under its name; an   *)
(* ExecuteWorkflow call with the id or the name of the definition          *)
(* registered last runs that definition, and the record it creates has     *)
(* the definition's id as WorkflowID.                                      *)
(***************************************************************************)
C16_RegisteredUnderIdAndName ==
    [][/\ RegisterWorkflow =>
             LET w == Head(pending)
                 p == Len(wfHeap')
             IN  /\ p = Len(wfHeap) + 1
                 /\ wfHeap'[p].ID # ""
                 /\ w.ID # "" => wfHeap'[p].ID = w.ID
                 /\ wfHeap'[p].Name = w.Name
                 /\ wfHeap'[p].ID \in DOMAIN workflows' /\ workflows'[wfHeap'[p].ID] = p
                 /\ w.Name \in DOMAIN workflows' /\ workflows'[w.Name] = p
       /\ \A c \in Callers, k \in RegKeys, v \in VariableArgs :
             (/\ ExecuteWorkflow(c, k, v)
              /\ wfHeap # <<>>
              /\ k \in KeysOf(Len(wfHeap)))
                => /\ pc'[c] = "create"
                   /\ loc'[c].workflow = Len(wfHeap)
       /\ \A c \in Callers :
             CreateExecution(c) =>
                 exHeap'[loc'[c].execution].WorkflowID = wfHeap[loc[c].workflow].ID]_vars

\* a definition registered without an id was run under the id it was given,
\* and its name is a key too
C16_Witness ==
    \E c \in Callers, t \in 0..MaxClock :
        /\ ReturnedRecord(c)
        /\ ExecutionOf(c).WorkflowID = generateWorkflowID(t)
        /\ WorkflowOf(c).ID = generateWorkflowID(t)
        /\ workflows[generateWorkflowID(t)] = loc[c].workflow
        /\ workflows[WorkflowOf(c).Name] = loc[c].workflow

(***************************************************************************)
(* C17.  RegisterWorkflow never fails: it returns nil for every            *)
(* definition, and a key of the registry that equals the new definition's  *)
(* id or name, whichever definition's id or name it was, points to the new *)
(* definition afterwards; the other keys keep their definitions.           *)
(***************************************************************************)
C17_LastRegistrationWins ==
    [][RegisterWorkflow =>
          LET p == Len(wfHeap')
              new == {wfHeap'[p].ID, wfHeap'[p].Name}
          IN  /\ regErr' = NilError
              /\ p = Len(wfHeap) + 1
              /\ DOMAIN workflows' = DOMAIN workflows \cup new
              /\ \A k \in DOMAIN workflows' :
                    workflows'[k] = IF k \in new THEN p ELSE workflows[k]]_vars

\* the second definition's id was the first one's name, and its name the
\* first one's name too: the key points to the second definition
C17_Witness ==
    /\ Len(wfHeap) = 2
    /\ regErr = NilError
    /\ wfHeap[2].ID = wfHeap[1].Name
    /\ wfHeap[2].ID # wfHeap[1].ID
    /\ workflows[wfHeap[1].Name] = 2
    /\ workflows[wfHeap[1].ID] = 1

(***************************************************************************)
(* C18.  ExecuteWorkflow(id, vars) merges vars into the variable bag of    *)
(* the definition itself, the last writer of a key winning: a nil bag is   *)
(* first replaced by an empty one, each iteration sets one key of vars to  *)
(* its value in vars and leaves every other key as it was, when the merge  *)
(* is over the bag holds vars[k] under every key k of vars, and nothing    *)
(* else changes the bag, so that the values stay after the run and the     *)
(* next run starts from them.                                              *)
(***************************************************************************)
C18_VariablesMerged ==
    [][/\ \A c \in Callers :
             LET bag == wfHeap[loc[c].workflow].Variables
                 bagAfter == wfHeap'[loc[c].workflow].Variables
             IN  /\ InitVariables(c) =>
                       /\ bagAfter = bag
                       /\ pc'[c] = IF bag.isNil THEN "make" ELSE "merge"
                 /\ AssignVariables(c) => bagAfter = MakeVariables
                 /\ MergeVariable(c) =>
                       \E k \in DOMAIN loc[c].variables :
                           /\ ~bagAfter.isNil
                           /\ DOMAIN bagAfter.m = DOMAIN bag.m \cup {k}
                           /\ bagAfter.m[k] = loc[c].variables[k]
                           /\ \A j \in DOMAIN bag.m \ {k} : bagAfter.m[j] = bag.m[j]
                 /\ RegisterExecution(c) =>
                       /\ ~bag.isNil
                       /\ \A k \in DOMAIN loc[c].variables :
                             k \in DOMAIN bag.m /\ bag.m[k] = loc[c].variables[k]
       /\ (\A c \in Callers : pc[c] \notin {"make", "merge"}) =>
             \A p \in DOMAIN wfHeap : wfHeap'[p].Variables = wfHeap[p].Variables]_vars

\* both calls have returned: the bag holds the key only the first call gave,
\* the value the second call gave for the key both gave, and the variable
\* of the definition that no call gave
C18_Witness ==
    /\ \A c \in Callers : ReturnedRecord(c)
    /\ \E c, d \in Callers :
          /\ c # d
          /\ loc[c].execution < loc[d].execution
          /\ loc[c].variables = ("i" :> "u") @@ ("k" :> "v2")
          /\ loc[d].variables = ("k" :> "v")
          /\ WorkflowOf(d).Variables =
                [isNil |-> FALSE, m |-> ("i" :> "u") @@ ("j" :> "keep") @@ ("k" :> "v")]

(***************************************************************************)
(* C19.  As claimed: for a definition with unique step ids, dependencies   *)
(* that name its steps, no dependency cycle and only steps of the types    *)
(* task, condition, loop, parallel, chat and tool, the run ends with       *)
(* Status completed, no Error and StepStatus completed for every step.     *)
(***************************************************************************)
C19_RecognisedTypes(w) ==
    \A i \in DOMAIN w.Steps : w.Steps[i].Type \in RecognisedTypes

C19_WellFormedCompletes ==
    \A c \in Callers :
        (/\ ReturnedRecord(c)
         /\ C2_WellFormed(WorkflowOf(c))
         /\ C19_RecognisedTypes(WorkflowOf(c)))
          => /\ ExecutionOf(c).Status = "completed"
             /\ ExecutionOf(c).Error = NilError
             /\ DOMAIN ExecutionOf(c).StepStatus = StepIdsOf(WorkflowOf(c))
             /\ \A id \in StepIdsOf(WorkflowOf(c)) :
                   ExecutionOf(c).StepStatus[id] = "completed"

(***************************************************************************)
(* C20.  The parallel step fans out and joins: executeParallelStep starts  *)
(* its three branches, no branch is ever kept from sending its output      *)
(* (the channel is neither full nor closed when a branch sends), the       *)
(* handler closes the channel and collects only when every branch has      *)
(* returned, the result it returns holds the output of each branch         *)
(* exactly once, in one of the orders of the branches, with no error, and  *)
(* under every interleaving the handler returns.                           *)
(***************************************************************************)
C20_Step ==
    [ID |-> "a", Type |-> "parallel", Config |-> EmptyMap, OnError |-> "",
     Dependencies |-> {}]

C20_Joined ==
    /\ par.pc \in {"wait", "close", "collect", "returned"} =>
          /\ par.i = taskCount
          /\ \A b \in 1..taskCount : par.branch[b] # "none"
    /\ \A b \in 1..taskCount :
          par.branch[b] = "send" => (Len(par.results) < ChanCap /\ ~par.closed)
    /\ par.pc \in {"close", "collect", "returned"} =>
          /\ par.wg = 0
          /\ \A b \in 1..taskCount : par.branch[b] = "exited"
    /\ par.pc # "panic"
    /\ par.pc = "returned" =>
          /\ par.out.err = NilError
          /\ par.out \in executeParallelStep(C20_Step)
          /\ Len(par.out.result) = taskCount + 1
          /\ \A b \in 1..taskCount :
                Cardinality({i \in 2..(taskCount + 1) :
                    par.out.result[i] = "Parallel task " \o ToString(b) \o " completed"}) = 1

C20_FanOutFanIn == [](C20_Joined) /\ <>(par.pc = "returned")

\* the handler returned the outputs in an order that is not the order in
\* which the branches were started
C20_Witness ==
    /\ par.pc = "returned"
    /\ par.out.result = ListValue(<<"Parallel task 3 completed",
                                    "Parallel task 1 completed",
                                    "Parallel task 2 completed">>)

(***************************************************************************)
(* C21.  A step whose Type is none of task, condition, loop, parallel,     *)
(* chat and tool fails with the unknown-step-type error: executeStep       *)
(* returns that error and no result, no result is stored for the step,     *)
(* its StepStatus is failed, and its OnError decides what follows: under   *)
(* stop or the unset policy the run ends with that error, under continue   *)
(* or retry the step is moved to the executed set and the run goes on.     *)
(***************************************************************************)
C21_UnknownTypeFails ==
    \A c \in Callers :
        HasExecution(c) =>
            LET w == WorkflowOf(c)
                r == ExecutionOf(c)
            IN  /\ (pc[c] = "record" /\ StepOf(c, loc[c].id).Type \notin RecognisedTypes) =>
                      /\ loc[c].out = [result |-> NilValue,
                                       err |-> UnknownStepType(StepOf(c, loc[c].id))]
                      /\ loc[c].id \notin DOMAIN stepResults[r.ExecutionID]
                /\ \A id \in DOMAIN r.StepStatus :
                      StepById(w, id).Type \notin RecognisedTypes =>
                          /\ r.StepStatus[id] = "failed"
                          /\ id \notin DOMAIN stepResults[r.ExecutionID]
                          /\ StepById(w, id).OnError \in {"stop", ""} =>
                                /\ pc[c] \in {"status", "endtime", "returned"}
                                /\ loc[c].err = UnknownStepType(StepById(w, id))
                                /\ id \notin loc[c].executedSteps
                          /\ StepById(w, id).OnError \in {"continue", "retry"} =>
                                id \in loc[c].executedSteps

\* a step of an unknown type under continue has failed, and a step that
\* depends on it has run after it
C21_Witness ==
    \E c \in Callers :
        /\ ReturnedRecord(c)
        /\ \E a, b \in StepIdsOf(WorkflowOf(c)) :
              /\ StepById(WorkflowOf(c), a).Type \notin RecognisedTypes
              /\ ContinueFailed(c, a)
              /\ a \in StepById(WorkflowOf(c), b).Dependencies
              /\ b \in DOMAIN ExecutionOf(c).StepStatus
              /\ ExecutionOf(c).StepStatus[b] = "completed"

(***************************************************************************)
(* C27.  Whether a failure ends the run depends on the failing step's      *)
(* policy only: a run all of whose failed steps have OnError = "continue", *)
(* and that did not get stuck, ends with Status completed and no Error,    *)
(* whatever failed entries its StepStatus holds.                           *)
(***************************************************************************)
C27_ContinueCompletes ==
    \A c \in Callers :
        (/\ ReturnedRecord(c)
         /\ \A id \in DOMAIN ExecutionOf(c).StepStatus :
               ExecutionOf(c).StepStatus[id] = "failed" =>
                   StepById(WorkflowOf(c), id).OnError = "continue"
         /\ loc[c].err # StuckError)
          => /\ ExecutionOf(c).Status = "completed"
             /\ ExecutionOf(c).Error = NilError

\* a run ended completed with a failed step
C27_Witness ==
    \E c \in Callers :
        /\ ReturnedRecord(c)
        /\ ExecutionOf(c).Status = "completed"
        /\ ExecutionOf(c).Error = NilError
        /\ \E id \in StepIdsOf(WorkflowOf(c)) : ContinueFailed(c, id)

(***************************************************************************)
(* C28.  As claimed: a failed step whose OnError is neither "continue"     *)
(* nor "retry" (unset, "stop", or any other string) ends the run: the      *)
(* step is not moved to the executed set, no step is dispatched after it,  *)
(* and the run ends with Status failed.                                    *)
(***************************************************************************)
C28_StopIsDefault ==
    \A c \in Callers :
        HasExecution(c) =>
            \A id \in DOMAIN ExecutionOf(c).StepStatus :
                (/\ ExecutionOf(c).StepStatus[id] = "failed"
                 /\ StepById(WorkflowOf(c), id).OnError \notin {"continue", "retry"})
                  => /\ pc[c] \in {"status", "endtime", "returned"}
                     /\ id \notin loc[c].executedSteps
                     /\ pc[c] = "returned" => ExecutionOf(c).Status = "failed"

(***************************************************************************)
(* C29.  Throughout a run the remaining steps and the executed steps       *)
(* partition the step ids: they are disjoint and cover them, a step        *)
(* leaves the remaining steps only when it was dispatched and its status   *)
(* recorded, the executed set only grows, every executed step has a        *)
(* StepStatus entry, and a remaining step has one only if it is the step   *)
(* whose failure under the stop policy ended the run.                      *)
(***************************************************************************)
C29_InRun(c) == pc[c] \in {"scan", "handler", "record", "status", "endtime", "returned"}

C29_Partition ==
    \A c \in Callers :
        (HasExecution(c) /\ C29_InRun(c)) =>
            LET Remaining == DOMAIN loc[c].remainingSteps
                Executed == loc[c].executedSteps
            IN  /\ Remaining \cap Executed = {}
                /\ Remaining \cup Executed = StepIdsOf(WorkflowOf(c))
                /\ Executed \subseteq DOMAIN ExecutionOf(c).StepStatus
                /\ \A id \in Remaining \cap DOMAIN ExecutionOf(c).StepStatus :
                      /\ StopFailed(c, id)
                      /\ id = loc[c].id
                      /\ loc[c].err = loc[c].out.err
                      /\ pc[c] \in {"status", "endtime", "returned"}

C29_Moves ==
    \A c \in Callers :
        (HasExecution(c) /\ C29_InRun(c)) =>
            /\ loc[c].executedSteps \subseteq loc'[c].executedSteps
            /\ DOMAIN loc'[c].remainingSteps \subseteq DOMAIN loc[c].remainingSteps
            /\ \A id \in (DOMAIN loc[c].remainingSteps) \ (DOMAIN loc'[c].remainingSteps) :
                  /\ pc[c] = "record"
                  /\ id = loc[c].id
                  /\ id \in loc'[c].executedSteps

C29_RemainingAndExecuted == [](C29_Partition) /\ [][C29_Moves]_vars

\* a run ended at a failure under the stop policy: the failed step is still
\* a remaining step and has its StepStatus, beside executed steps
C29_Witness ==
    \E c \in Callers :
        /\ ReturnedRecord(c)
        /\ loc[c].executedSteps # {}
        /\ \E id \in DOMAIN loc[c].remainingSteps :
              id \in DOMAIN ExecutionOf(c).StepStatus
        /\ \E id \in DOMAIN loc[c].remainingSteps :
              id \notin DOMAIN ExecutionOf(c).StepStatus

(***************************************************************************)
(* C30.  Within a run each step id is dispatched at most once: the id the  *)
(* scan dispatches has no StepStatus yet; of the steps of a definition     *)
(* that share an id, the one dispatched is the last in definition order;   *)
(* and the run terminates.                                                 *)
(***************************************************************************)
C30_LastWith(w, id) ==
    CHOOSE i \in DOMAIN w.Steps :
        /\ w.Steps[i].ID = id
        /\ \A j \in DOMAIN w.Steps : w.Steps[j].ID = id => j <= i

C30_LaterStep ==
    \A c \in Callers :
        pc[c] \in {"handler", "record"} =>
            /\ loc[c].remainingSteps[loc[c].id] = C30_LastWith(WorkflowOf(c), loc[c].id)
            /\ currentStep[ExecutionIDOf(c)] =
                  <<loc[c].workflow, C30_LastWith(WorkflowOf(c), loc[c].id)>>

C30_Fresh ==
    \A c \in Callers :
        (pc[c] = "scan" /\ pc'[c] = "handler") =>
            /\ loc'[c].id \notin DOMAIN ExecutionOf(c).StepStatus
            /\ loc'[c].id \notin loc[c].executedSteps
            /\ loc'[c].id \in DOMAIN loc[c].remainingSteps

C30_DispatchedOnce ==
    /\ [](C30_LaterStep)
    /\ [][C30_Fresh]_vars
    /\ \A c \in Callers : (pc[c] = "create") ~> (pc[c] = "returned")

\* the first step of the definition succeeds, the second has the same id
\* and fails: the run recorded the id as failed, and the dependent ran
C30_Witness ==
    \E c \in Callers :
        /\ ReturnedRecord(c)
        /\ Len(WorkflowOf(c).Steps) = 3
        /\ WorkflowOf(c).Steps[1].ID = "a"
        /\ WorkflowOf(c).Steps[1].Type = "task"
        /\ WorkflowOf(c).Steps[2].ID = "a"
        /\ WorkflowOf(c).Steps[2].Type = "bogus"
        /\ ExecutionOf(c).StepStatus = [a |-> "failed", b |-> "completed"]
        /\ WorkflowOf(c).Steps[3].Dependencies = {"a"}

(***************************************************************************)
(* C23.  Two ExecuteWorkflow calls on one definition share its variable    *)
(* bag: each call works on the definition the registry points to, not on   *)
(* a copy, and a key one call writes in its merge is at once in the bag    *)
(* the other call's run reads.  Nothing keeps the two calls from being in  *)
(* the merge at the same time, where one overwrites the other's key.       *)
(***************************************************************************)
C23_Running(c) == pc[c] \notin {"idle", "returned", "crashed"}

C23_SameDefinition ==
    \A c \in Callers :
        C23_Running(c) => \E k \in DOMAIN workflows : workflows[k] = loc[c].workflow

C23_WriteSeen ==
    \A c, d \in Callers :
        (/\ c # d
         /\ C23_Running(c) /\ C23_Running(d)
         /\ MergeVariable(c))
          => /\ loc[d].workflow = loc[c].workflow
             /\ \E k \in loc[c].todo \ loc'[c].todo :
                   LET seen == wfHeap'[loc[d].workflow].Variables.m
                   IN  k \in DOMAIN seen /\ seen[k] = loc[c].variables[k]

C23_SharedBag == [](C23_SameDefinition) /\ [][C23_WriteSeen]_vars

\* both calls are in the merge; the first has written the key k and has a
\* key left to write, and the bag holds the second call's value for k
C23_Witness ==
    \E c, d \in Callers :
        /\ c # d
        /\ pc[c] = "merge" /\ pc[d] = "merge"
        /\ loc[c].workflow = loc[d].workflow
        /\ loc[c].variables = ("i" :> "u") @@ ("k" :> "v2")
        /\ loc[c].todo = {"i"}
        /\ loc[d].variables = ("k" :> "v")
        /\ loc[d].todo = {}
        /\ WorkflowOf(c).Variables.m["k"] = "v"

(***************************************************************************)
(* C26.  The Status of an execution record only moves from "running" to    *)
(* "completed" or to "failed", and a record that left "running" keeps its  *)
(* Status.  The record is created as "running" and is in the execution     *)
(* registry, still "running", when RegisterExecution has acted, which is   *)
(* before the first step is dispatched; a record the call returns has left *)
(* "running".                                                              *)
(***************************************************************************)
C26_Terminal == {"completed", "failed"}

C26_StatusMoves ==
    /\ \A p \in DOMAIN exHeap :
          exHeap'[p].Status # exHeap[p].Status
            => exHeap[p].Status = "running" /\ exHeap'[p].Status \in C26_Terminal
    /\ \A p \in DOMAIN exHeap' \ DOMAIN exHeap : exHeap'[p].Status = "running"
    /\ \A c \in Callers :
          RegisterExecution(c)
            => /\ executions'[ExecutionIDOf(c)] = loc[c].execution
               /\ exHeap'[loc[c].execution].Status = "running"

C26_RunningWhileDispatched ==
    \A c \in Callers :
        /\ pc[c] \in {"scan", "handler", "record"}
              => /\ ExecutionIDOf(c) \in DOMAIN executions
                 /\ ExecutionOf(c).Status = "running"
        /\ (pc[c] = "returned" /\ ret[c].execution # NilPtr)
              => exHeap[ret[c].execution].Status \in C26_Terminal

C26_StatusLifecycle == [](C26_RunningWhileDispatched) /\ [][C26_StatusMoves]_vars

\* GetExecutionStatus has returned the record of a call that is inside a
\* step handler, and the record is "running"
C26_Witness ==
    \E c \in Callers :
        /\ pc[c] = "handler"
        /\ got.execution = loc[c].execution
        /\ got.err = NilError
        /\ exHeap[got.execution].Status = "running"

(***************************************************************************)
(* C25.  Calls of ExecuteWorkflow on different definitions do not          *)
(* interfere: at every moment the StepStatus of a run holds only ids of    *)
(* steps of the run's own definition, a step taken by one call leaves the  *)
(* other call's record and definition as they were, and a run ends with a  *)
(* Status, Error and StepStatus that a run of its definition alone can end *)
(* with.                                                                   *)
(***************************************************************************)
C25_OwnSteps ==
    \A c \in Callers :
        HasExecution(c)
          => /\ DOMAIN ExecutionOf(c).StepStatus \subseteq StepIdsOf(WorkflowOf(c))
             /\ pc[c] \in {"endtime", "returned"}
                   => <<ExecutionOf(c).Status, ExecutionOf(c).Error,
                        ExecutionOf(c).StepStatus>> \in RunsAlone(WorkflowOf(c))

C25_Frame ==
    \A c \in Callers :
        (HasExecution(c) /\ pc'[c] = pc[c] /\ loc'[c] = loc[c])
          => /\ exHeap'[loc[c].execution] = exHeap[loc[c].execution]
             /\ wfHeap'[loc[c].workflow] = wfHeap[loc[c].workflow]
             /\ ret'[c] = ret[c]

C25_NoInterference == [](C25_OwnSteps) /\ [][C25_Frame]_vars

\* both runs have ended, under one ExecutionID, each with a step of its own
\* in its StepStatus, and the second has ended as failed and the first has not
C25_Witness ==
    /\ pc["c1"] = "returned" /\ pc["c2"] = "returned"
    /\ HasExecution("c1") /\ HasExecution("c2")
    /\ ExecutionIDOf("c1") = ExecutionIDOf("c2")
    /\ DOMAIN ExecutionOf("c1").StepStatus = {"a", "b"}
    /\ DOMAIN ExecutionOf("c2").StepStatus = {"x"}
    /\ ExecutionOf("c1").Status = "completed"
    /\ ExecutionOf("c2").Status = "failed"

(***************************************************************************)
(* C22.  The policy "retry" behaves as "continue".  A failed step with     *)
(* OnError = "retry" was dispatched when it had no entry in StepStatus,    *)
(* is recorded as "failed", joins executedSteps, leaves remainingSteps,    *)
(* and the loop goes on; and the Status, Error and StepStatus a run can    *)
(* end with are those of the definition with every "retry" replaced by     *)
(* "continue", which the finished run's own result is among.               *)
(***************************************************************************)
C22_Continued(w) ==
    [w EXCEPT !.Steps = [i \in DOMAIN w.Steps |->
        IF w.Steps[i].OnError = "retry"
        THEN [w.Steps[i] EXCEPT !.OnError = "continue"] ELSE w.Steps[i]]]

C22_SameOutcome ==
    \A c \in Callers :
        ReturnedRecord(c)
          => /\ RunsAlone(WorkflowOf(c)) = RunsAlone(C22_Continued(WorkflowOf(c)))
             /\ <<ExecutionOf(c).Status, ExecutionOf(c).Error, ExecutionOf(c).StepStatus>>
                    \in RunsAlone(C22_Continued(WorkflowOf(c)))

C22_RetryStep ==
    \A c \in Callers :
        (/\ RecordStep(c)
         /\ loc[c].out.err # NilError
         /\ StepOf(c, loc[c].id).OnError = "retry")
          => /\ loc[c].id \notin DOMAIN ExecutionOf(c).StepStatus
             /\ exHeap'[loc[c].execution].StepStatus[loc[c].id] = "failed"
             /\ loc[c].id \in loc'[c].executedSteps
             /\ loc[c].id \notin DOMAIN loc'[c].remainingSteps
             /\ pc'[c] = "scan"
             /\ loc'[c].err = NilError

C22_RetryIsContinue == [](C22_SameOutcome) /\ [][C22_RetryStep]_vars

\* the run has ended as completed: its step b failed under "retry" and its
\* step a, which depends on b, ran after it
C22_Witness ==
    /\ ReturnedRecord(Caller)
    /\ \E i \in DOMAIN WorkflowOf(Caller).Steps :
          /\ WorkflowOf(Caller).Steps[i].ID = "b"
          /\ WorkflowOf(Caller).Steps[i].OnError = "retry"
    /\ \E i \in DOMAIN WorkflowOf(Caller).Steps :
          /\ WorkflowOf(Caller).Steps[i].ID = "a"
          /\ "b" \in WorkflowOf(Caller).Steps[i].Dependencies
    /\ "a" \in DOMAIN ExecutionOf(Caller).StepStatus
    /\ "b" \in DOMAIN ExecutionOf(Caller).StepStatus
    /\ ExecutionOf(Caller).StepStatus["b"] = "failed"
    /\ ExecutionOf(Caller).StepStatus["a"] = "completed"
    /\ ExecutionOf(Caller).Status = "completed"

(***************************************************************************)
(* C24.  The mutex is not held while a step handler runs.  Inside          *)
(* executeStep a goroutine holds the mutex only where it stores the        *)
(* handler's result, after the handler has returned; while a run is inside *)
(* a handler and no other goroutine is at that store, RegisterWorkflow,    *)
(* GetExecutionStatus, ListWorkflows and another caller's ExecuteWorkflow  *)
(* can each take the mutex and act; and a mutex that is held is released.  *)
(***************************************************************************)
C24_HeldOnlyToStore ==
    /\ mu \in Callers \cup {Unlocked}
    /\ \A c \in Callers : mu = c <=> pc[c] = "store"

C24_OthersCanAct ==
    \A c \in Callers :
        (pc[c] = "handler" /\ mu = Unlocked)
          => /\ pending # <<>> => ENABLED LockedRegisterWorkflow
             /\ ENABLED LockedListWorkflows
             /\ \A id \in LockExecutionIDs : ENABLED LockedGetExecutionStatus(id)
             /\ \A d \in Callers \ {c} :
                   pc[d] = "idle"
                     => \A v \in VariableArgs : ENABLED LockedExecuteWorkflow(d, "w1", v)

C24_Released == \A c \in Callers : (mu = c) ~> (mu = Unlocked)

C24_HandlerOutsideLock ==
    [](C24_HeldOnlyToStore /\ C24_OthersCanAct) /\ C24_Released

\* one run is inside a handler while the other caller holds the mutex, which
\* that caller took after the run had entered the handler, and the second
\* registration, a lookup and a listing were made in between
C24_Witness ==
    /\ pc["c1"] = "handler"
    /\ mu = "c2"
    /\ pending = <<>>
    /\ got.err = NilError /\ got.execution # NilPtr
    /\ listed # <<>>

(***************************************************************************)
(* C31.  The stuck error comes only after maximal progress.  When          *)
(* executeSteps has returned "workflow stuck", no step of the run failed   *)
(* under the stop or the unset policy; every step all of whose direct and  *)
(* transitive dependencies are steps of the definition that are on no      *)
(* dependency cycle is in executedSteps and has a StepStatus entry; and    *)
(* every step left in remainingSteps has a dependency that is not in       *)
(* executedSteps.                                                          *)
(***************************************************************************)
C31_Stuck(c) ==
    /\ pc[c] \in {"status", "endtime", "returned"}
    /\ HasExecution(c)
    /\ loc[c].err = StuckError

\* the step id and all it depends on exist and lie on no cycle
C31_Sound(w, id) ==
    /\ TransitiveDeps(w, id) \subseteq StepIdsOf(w)
    /\ \A x \in TransitiveDeps(w, id) \cup {id} : x \notin TransitiveDeps(w, x)

C31_MaximalProgress ==
    \A c \in Callers :
        C31_Stuck(c)
          => /\ \A id \in StepIdsOf(WorkflowOf(c)) : ~StopFailed(c, id)
             /\ \A id \in StepIdsOf(WorkflowOf(c)) :
                   C31_Sound(WorkflowOf(c), id)
                     => /\ id \in loc[c].executedSteps
                        /\ id \in DOMAIN ExecutionOf(c).StepStatus
             /\ DOMAIN loc[c].remainingSteps # {}
             /\ \A id \in DOMAIN loc[c].remainingSteps :
                   \E dep \in StepOf(c, id).Dependencies : dep \notin loc[c].executedSteps

\* the run has returned the stuck error after it executed the step a; the
\* step b, which waits for a step that does not exist, is left
C31_Witness ==
    /\ C31_Stuck(Caller)
    /\ pc[Caller] = "returned"
    /\ ExecutionOf(Caller).Error = StuckError
    /\ loc[Caller].executedSteps = {"a"}
    /\ DOMAIN loc[Caller].remainingSteps = {"b"}
    /\ C31_Sound(WorkflowOf(Caller), "a")
    /\ ~DepsExist(WorkflowOf(Caller))

(***************************************************************************)
(* C32.  Without a failure under the stop or the unset policy the outcome  *)
(* of a run does not depend on the order in which the range reaches the    *)
(* steps: the run's Status, Error and StepStatus are among the outcomes    *)
(* executeSteps has over all orders, and the outcomes without such a       *)
(* failure are one and the same, with no error or with the stuck error.    *)
(***************************************************************************)
\* the outcome o = (Status, Error, StepStatus) of a run of w has no step that
\* failed under the stop or the unset policy
C32_NoStopFailure(w, o) ==
    \A id \in DOMAIN o[3] : ~(o[3][id] = "failed" /\ StopsOn(StepById(w, id).OnError))

C32_Outcome(c) ==
    <<ExecutionOf(c).Status, ExecutionOf(c).Error, ExecutionOf(c).StepStatus>>

C32_OrderIndependent ==
    \A c \in Callers :
        ReturnedRecord(c)
          => LET w == WorkflowOf(c)
                 outs == {o \in RunsAlone(w) : C32_NoStopFailure(w, o)}
             IN  /\ C32_Outcome(c) \in RunsAlone(w)
                 /\ \A o1, o2 \in outs : o1 = o2
                 /\ \A o \in outs : o[2] \in {NilError, StuckError}
                 /\ C32_NoStopFailure(w, C32_Outcome(c)) => outs = {C32_Outcome(c)}

\* the run of three steps without dependencies, which the range can reach in
\* six orders, has returned; one step failed under continue
C32_Witness ==
    /\ ReturnedRecord(Caller)
    /\ Len(WorkflowOf(Caller).Steps) = 3
    /\ \A i \in DOMAIN WorkflowOf(Caller).Steps : WorkflowOf(Caller).Steps[i].Dependencies = {}
    /\ DOMAIN ExecutionOf(Caller).StepStatus = {"a", "b", "c"}
    /\ \E id \in {"a", "b", "c"} : ContinueFailed(Caller, id)
    /\ ExecutionOf(Caller).Status = "completed"

(***************************************************************************)
(* C33.  As claimed: when a run halts at a failure under the stop or the   *)
(* unset policy, the set of steps recorded in StepStatus is the same for   *)
(* every order in which the range reaches the steps that can execute: the  *)
(* outcomes executeSteps has over all orders, and the finished run's own,  *)
(* record the same steps.                                                  *)
(***************************************************************************)
C33_RecordedSetFixed ==
    \A c \in Callers :
        (/\ ReturnedRecord(c)
         /\ \E id \in StepIdsOf(WorkflowOf(c)) : HaltedAt(c, id))
          => \A o \in RunsAlone(WorkflowOf(c)) :
                DOMAIN o[3] = DOMAIN ExecutionOf(c).StepStatus

(***************************************************************************)
(* C34.  As claimed: ListWorkflows returns each registered definition      *)
(* exactly once: its result has as many entries as there are distinct      *)
(* definitions in the registry, and no definition is in it twice.          *)
(***************************************************************************)
C34_ListedOnce ==
    [][ListWorkflows =>
          /\ Len(listed') = Cardinality({workflows[k] : k \in DOMAIN workflows})
          /\ \A i, j \in DOMAIN listed' : listed'[i] = listed'[j] => i = j]_vars

(***************************************************************************)
(* C35.  As claimed: the id keys and the name keys of the workflow         *)
(* registry stay consistent: for every definition d that some key of the   *)
(* registry leads to, the key d.ID is in the registry and leads to d.      *)
(***************************************************************************)
C35_KeysConsistent ==
    \A k \in DOMAIN workflows :
        LET d == workflows[k]
        IN  /\ wfHeap[d].ID \in DOMAIN workflows
            /\ workflows[wfHeap[d].ID] = d

(***************************************************************************)
(* C36.  A condition step does not gate the control flow.  Its handler     *)
(* returns no error and a result with condition_met = true and the         *)
(* condition string, whatever the "condition" entry of its Config is; and  *)
(* the outcomes of a definition, Status, Error and StepStatus, are those   *)
(* of the definition with its condition steps replaced by task steps,      *)
(* the finished run's own outcome among them.                              *)
(***************************************************************************)
C36_AsTask(w) ==
    [w EXCEPT !.Steps = [i \in DOMAIN w.Steps |->
        IF w.Steps[i].Type = "condition"
        THEN [w.Steps[i] EXCEPT !.Type = "task"] ELSE w.Steps[i]]]

C36_Handler ==
    \A c \in Callers :
        (RunHandler(c) /\ StepOf(c, loc[c].id).Type = "condition")
          => /\ loc'[c].out.err = NilError
             /\ loc'[c].out.result =
                   <<"map", "condition_met", "true", "value",
                     ConfigString(StepOf(c, loc[c].id), "condition")>>
             /\ stepResults'[ExecutionIDOf(c)][loc[c].id] = loc'[c].out.result

C36_SameAsTask ==
    \A c \in Callers :
        /\ Registered(c)
              => \A id \in DOMAIN ExecutionOf(c).StepStatus :
                    StepById(WorkflowOf(c), id).Type = "condition"
                      => ExecutionOf(c).StepStatus[id] = "completed"
        /\ ReturnedRecord(c)
              => /\ RunsAlone(WorkflowOf(c)) = RunsAlone(C36_AsTask(WorkflowOf(c)))
                 /\ C32_Outcome(c) \in RunsAlone(C36_AsTask(WorkflowOf(c)))

C36_ConditionNeverGates == [](C36_SameAsTask) /\ [][C36_Handler]_vars

\* the run has completed: its condition step a, with the condition "false",
\* is completed, and the step b that depends on it ran
C36_Witness ==
    /\ ReturnedRecord(Caller)
    /\ StepById(WorkflowOf(Caller), "a").Type = "condition"
    /\ ConfigString(StepById(WorkflowOf(Caller), "a"), "condition") = "false"
    /\ "a" \in StepById(WorkflowOf(Caller), "b").Dependencies
    /\ DOMAIN ExecutionOf(Caller).StepStatus = {"a", "b"}
    /\ ExecutionOf(Caller).StepStatus["a"] = "completed"
    /\ ExecutionOf(Caller).StepStatus["b"] = "completed"
    /\ ExecutionOf(Caller).Status = "completed"

(***************************************************************************)
(* C37.  As claimed: a step of type loop returns no error and a list of N  *)
(* strings, the i-th being "Loop iteration i", where N is the whole part   *)
(* of a positive number "iterations" and 0 when "iterations" is zero,      *)
(* negative, absent or not a number; the strings are pairwise distinct.    *)
(***************************************************************************)
C37_N(step) ==
    IF "iterations" \in DOMAIN step.Config /\ step.Config["iterations"].v > 0
    THEN CASE step.Config["iterations"].t = "float64" -> step.Config["iterations"].v \div 2
           [] step.Config["iterations"].t = "int" -> step.Config["iterations"].v
           [] OTHER -> 0
    ELSE 0

C37_LoopResult ==
    [][\A c \in Callers :
          (RunHandler(c) /\ StepOf(c, loc[c].id).Type = "loop")
            => LET r == loc'[c].out.result
                   n == C37_N(StepOf(c, loc[c].id))
               IN  /\ loc'[c].out.err = NilError
                   /\ Len(r) = n + 1
                   /\ r[1] = "list"
                   /\ \A i \in 1..n : r[i + 1] = "Loop iteration " \o ToString(i)
                   /\ \A i, j \in 1..n : r[i + 1] = r[j + 1] => i = j]_vars

(***************************************************************************)
(* C38.  As claimed: ScanPlugins always returns: once it holds the         *)
(* manager's mutex it returns and has released the mutex, whatever the     *)
(* directory listing is, and a LoadPlugin call that waits for the mutex    *)
(* gets it.                                                                *)
(***************************************************************************)
C38_ScanReturns ==
    /\ (pm.mu = "scanner") ~> (pm.pc["scanner"] = "returned" /\ pm.mu # "scanner")
    /\ (pm.pc["client"] = "load") ~> (pm.pc["client"] = "open")

(***************************************************************************)
(* C39.  As claimed: when the reply starts with "TOOL: <name>", names a    *)
(* tool of the registry and has an ARGS part with a well-formed JSON       *)
(* object, ProcessMessage does not crash, executes that tool once, stores  *)
(* the tool's result as an assistant message and returns it; when the      *)
(* name is missing, or the ARGS part is missing or is no JSON,             *)
(* ProcessMessage returns an error, executes no tool and does not crash.   *)
(***************************************************************************)
C39_ToolCall ==
    [][ProcessMessage =>
          LET r == ag'.response
              called == /\ r.tool
                        /\ ag'.err \notin {"failed to insert message",
                                           "failed to query messages", "provider error"}
          IN  /\ (called /\ r.name \in ToolNames /\ r.args = "object")
                    => /\ ag'.panic = NilError
                       /\ ag'.err = NilError
                       /\ Len(ag'.executed) = Len(ag.executed) + 1
                       /\ ag'.executed[Len(ag'.executed)].Name = r.name
                       /\ ag'.messages[Len(ag'.messages)] =
                             <<"assistant", "[Tool: " \o r.name \o "] " \o ag'.result>>
                       /\ ag'.result = "Result: (calculation of 1+1)"
              /\ (called /\ (r.name = "" \/ r.args \in {"none", "malformed"}))
                    => /\ ag'.panic = NilError
                       /\ ag'.err # NilError
                       /\ ag'.executed = ag.executed]_vars

=============================================================================
